---- MODULE Spec2Model ----
(***************************************************************************)
(* Fuzzing campaign drivers of src/programs: complex_input.py, maze.py and *)
(* toy_lang.py.  Each module keeps a global coverage map (a dict           *)
(* branch -> 1, modelled by its key set), a system under test that calls   *)
(* record_coverage, and two campaign functions, pure_random_fuzzing and    *)
(* coverage_guided_fuzzing.                                                *)
(*                                                                         *)
(* Strings are sequences of one-character strings.  Every random.choice /  *)
(* random.randint of the code is an existential choice of the action that  *)
(* makes it.                                                               *)
(***************************************************************************)
EXTENDS Integers, Sequences, FiniteSets, TLC

VARIABLES
    driver,            \* which module runs: "complex_input", "maze", "toy_lang"
    pc,                \* position of the campaign function
    policy,            \* "PureRandom" or "CoverageGuided" ("None" before the call)
    iterations,        \* the argument of the call
    it,                \* number of loop iterations finished
    heap,              \* the dict objects: object |-> key set
    coverage_map,      \* the module global: which dict object it is bound to
    saved_map,         \* local of coverage_guided_fuzzing (an object or "None")
    temp_map,          \* local of coverage_guided_fuzzing (an object or "None")
    seeds,             \* the corpus
    total_coverage,    \* total_coverage / total_covered_branches / covered_branches
    coverage_history,
    seed,              \* the seed picked in the running iteration
    mutated,           \* the input executed in the running iteration
    raised,            \* whether the except clause of the running iteration ran
    always_raised,     \* history: the except clause ran in every iteration so far
    result,            \* the value returned by the campaign function
    coverage_history_random,  \* local of main: what pure_random_fuzzing returned
    cov_random,        \* the dict the random campaign filled (cov_random in maze.py)
    threads,           \* the locals of campaign functions called on threads
    lock,              \* KeyValueDatabase.lock: the thread that holds it, or "None"
    db_data,           \* KeyValueDatabase.data: its keys
    ttl_data,          \* KeyValueDatabase.ttl_data: its keys
    transactions,      \* KeyValueDatabase.transactions: its keys
    stacks,            \* the database threads' call stacks
    parser             \* a parse_and_run followed line by line: the locals of
                       \* tokenize and the fields of its Parser

vars == <<driver, pc, policy, iterations, it, heap, coverage_map, saved_map,
          temp_map, seeds, total_coverage, coverage_history, seed, mutated,
          raised, always_raised, result, coverage_history_random, cov_random,
          threads, lock, db_data, ttl_data, transactions, stacks, parser>>

\* the locals of main
main_locals == <<coverage_history_random, cov_random>>

\* the state of what runs beside the campaign of the main thread
elsewhere == <<threads, lock, db_data, ttl_data, transactions, stacks, parser>>

\* the state of a KeyValueDatabase and of the threads that call it
db_vars == <<lock, db_data, ttl_data, transactions, stacks>>

\* no KeyValueDatabase has been constructed and no parse_and_run is followed
\* line by line
NoDatabase ==
    /\ lock = "None"
    /\ db_data = {}
    /\ ttl_data = {}
    /\ transactions = {}
    /\ stacks = <<>>
    /\ parser = "None"

----------------------------------------------------------------------------
(* Bounds of the model *)

\* largest iteration count a campaign is called with
MaxIter == 2
\* largest length of a pure-random input (the code draws 0..20 / 0..50)
MaxRandLen == 2
\* largest position the random source draws for a mutation (the code draws
\* 0..len-1)
MaxPos == 0
\* largest length of the short seeds a mutator is called on by itself
MaxSeedLen == 2

None == "None"

----------------------------------------------------------------------------
(* Helpers on strings *)

Min(a, b) == IF a < b THEN a ELSE b

\* F applied to the value of v.  v is evaluated once, as the code evaluates the
\* right-hand side of an assignment or the argument of a call once, however
\* often the result is read.
Bind(v, F(_)) == CHOOSE r \in {F(x) : x \in {v}} : TRUE

\* s[a:b] of Python for 0 <= a, with b clipped to len(s)
Slice(s, a, b) == SubSeq(s, a + 1, Min(b, Len(s)))

\* s[::-1]
RECURSIVE Reverse(_)
Reverse(s) == IF s = <<>> THEN <<>> ELSE Append(Reverse(Tail(s)), Head(s))

\* all strings over alphabet A of length at most n
RECURSIVE StringsUpTo(_, _)
StringsUpTo(A, n) ==
    IF n = 0 THEN {<<>>}
    ELSE LET shorter == StringsUpTo(A, n - 1)
         IN  shorter \cup {Append(s, c) : s \in {t \in shorter : Len(t) = n - 1}, c \in A}

\* the characters of the model, by the classes str.isalpha / isdigit / isspace
AsciiLower == {"a", "b", "c", "e", "f", "h", "i", "l", "n", "o", "p", "r", "s", "t",
               "x", "y", "z"}
AsciiUpper == {"A", "E", "F", "H", "L", "O", "S", "Z"}
Digits == {"0", "1", "2", "3", "7"}
Whitespace == {" ", "\n"}

isalpha(c) == c \in AsciiLower \cup AsciiUpper
isdigit(c) == c \in Digits
isspace(c) == c \in Whitespace
isalnum(c) == isalpha(c) \/ isdigit(c)

\* str.lower() of one character
lower(c) ==
    CASE c = "A" -> "a" [] c = "E" -> "e" [] c = "F" -> "f" [] c = "H" -> "h"
      [] c = "L" -> "l" [] c = "O" -> "o" [] c = "S" -> "s" [] c = "Z" -> "z"
      [] OTHER -> c

\* str.isupper(): at least one cased character and no lowercase one
isupper(s) ==
    /\ \E i \in 1..Len(s) : s[i] \in AsciiUpper
    /\ \A i \in 1..Len(s) : s[i] \notin AsciiLower

\* str.islower(): at least one cased character and no uppercase one
islower(s) ==
    /\ \E i \in 1..Len(s) : s[i] \in AsciiLower
    /\ \A i \in 1..Len(s) : s[i] \notin AsciiUpper

\* s.strip(): leading and trailing whitespace removed
RECURSIVE lstrip(_)
lstrip(s) == IF s # <<>> /\ isspace(Head(s)) THEN lstrip(Tail(s)) ELSE s
strip(s) == Reverse(lstrip(Reverse(lstrip(s))))

\* whether int(s) succeeds: optional surrounding whitespace, an optional sign,
\* then digits, single underscores allowed between digits
int_ok(s) ==
    LET t == strip(s)
        u == IF t # <<>> /\ Head(t) \in {"+", "-"} THEN Tail(t) ELSE t
    IN  /\ u # <<>>
        /\ isdigit(u[1])
        /\ isdigit(u[Len(u)])
        /\ \A i \in 1..Len(u) : isdigit(u[i]) \/ u[i] = "_"
        /\ \A i \in 1..(Len(u) - 1) : ~(u[i] = "_" /\ u[i + 1] = "_")

\* whether sub occurs in s
Contains(s, sub) ==
    \E i \in 0..(Len(s) - Len(sub)) : Slice(s, i, i + Len(sub)) = sub

----------------------------------------------------------------------------
(* complex_input.py: the system under test and the mutator *)

\* string.printable, reduced to the characters the random source draws here
Printable == {"7", "!"}

\* count of digits in data
RECURSIVE count_digits(_)
count_digits(data) ==
    IF data = <<>> THEN 0
    ELSE (IF isdigit(Head(data)) THEN 1 ELSE 0) + count_digits(Tail(data))

SpecialChars == {"!", "@", "#", "$", "%", "^", "&", "*", "(", ")"}

\* The branches process_input(data) records.  It never raises: the only
\* exception inside it, the ValueError of int(data), is caught by its own
\* try/except.
process_input(data) ==
    {"start"} \cup
    IF Len(data) < 3
    THEN {"len_short"} \cup (IF Len(data) = 0 THEN {"empty"} ELSE {"not_empty"})
    ELSE {"len_ok"}
         \cup (IF isalpha(data[1]) THEN {"alpha_start"} ELSE {"non_alpha_start"})
         \cup (IF \E i \in 1..Len(data) : isdigit(data[i])
               THEN {"digit_found"} ELSE {"no_digit"})
         \cup (IF isupper(data) THEN {"all_upper"}
               ELSE IF islower(data) THEN {"all_lower"} ELSE {"mixed_case"})
         \cup (IF \E i \in 1..Len(data) : data[i] \in SpecialChars
               THEN {"special_char"} ELSE {"no_special_char"})
         \cup (IF int_ok(data) THEN {"numeric"} ELSE {"non_numeric"})
         \cup (IF Len(data) % 2 = 0 THEN {"even_length"} ELSE {"odd_length"})
         \cup (IF Contains([i \in 1..Len(data) |-> lower(data[i])],
                           <<"h", "e", "l", "l", "o">>)
               THEN {"greeting"} ELSE {"no_greeting"})
         \cup (IF count_digits(data) > 2 THEN {"many_digits"} ELSE {"few_digits"})
         \cup (IF data = Reverse(data) THEN {"palindrome"} ELSE {"not_palindrome"})

MutationTypes == {"insert", "delete", "replace"}

\* mutate_input(input_str) with its random choices as arguments: first_char is
\* drawn only when input_str is empty, new_char only by insert and replace
mutate_input(input_str, first_char, mutation_type, pos, new_char) ==
    LET str == IF input_str = <<>> THEN <<first_char>> ELSE input_str
    IN  IF mutation_type = "insert"
        THEN Slice(str, 0, pos) \o <<new_char>> \o Slice(str, pos, Len(str))
        ELSE IF mutation_type = "delete" /\ Len(str) > 0
        THEN Slice(str, 0, pos) \o Slice(str, pos + 1, Len(str))
        ELSE IF mutation_type = "replace" /\ Len(str) > 0
        THEN Slice(str, 0, pos) \o <<new_char>> \o Slice(str, pos + 1, Len(str))
        ELSE str

\* the positions random.randint(0, n - 1) draws
Positions(n) == 0..Min(n - 1, MaxPos)

\* every candidate mutate_input can return for input_str
mutate_input_results(input_str) ==
    LET n == IF input_str = <<>> THEN 1 ELSE Len(input_str)
    IN  {mutate_input(input_str, fc, mt, pos, nc) :
            fc \in Printable, mt \in MutationTypes, pos \in Positions(n), nc \in Printable}

\* seeds of coverage_guided_fuzzing
complex_input_seeds ==
    << <<>>, <<"a">>, <<"A">>, <<"0">>, <<"h", "e", "l", "l", "o">>,
       <<"1", "2", "3">>, <<"!", "@", "#">> >>

----------------------------------------------------------------------------
(* maze.py: the system under test and the mutator *)

\* start = finish = None: no position found yet
NoPos == <<>>
\* the None find_shortest_path returns when there is no path
NoPath == <<>>

\* text.split('\n')
RECURSIVE split_lines(_, _)
split_lines(text0, line0) ==
    Bind(<<text0, line0>>, LAMBDA a : LET text == a[1] line == a[2] IN
    IF text = <<>> THEN <<line>>
    ELSE IF Head(text) = "\n" THEN <<line>> \o split_lines(Tail(text), <<>>)
    ELSE split_lines(Tail(text), Append(line, Head(text))))

\* The inner loop of Maze.from_string over the characters of row r from column
\* c on.  st = [start, finish, branches, raised]; positions are <<row, col>>,
\* counted from 0 as in the code.
RECURSIVE parse_row(_, _, _, _)
parse_row(row, r, c0, st0) ==
    Bind(<<c0, st0>>, LAMBDA a : LET c == a[1] st == a[2] IN
    IF c >= Len(row) THEN st
    ELSE LET ch == row[c + 1] IN
         IF ch = "S"
         THEN IF st.start = NoPos
              THEN parse_row(row, r, c + 1,
                     [st EXCEPT !.start = <<r, c>>,
                                !.branches = @ \cup {"found_start"}])
              ELSE [st EXCEPT !.branches = @ \cup {"multiple_start"}, !.raised = TRUE]
         ELSE IF ch = "F"
         THEN IF st.finish = NoPos
              THEN parse_row(row, r, c + 1,
                     [st EXCEPT !.finish = <<r, c>>,
                                !.branches = @ \cup {"found_finish"}])
              ELSE [st EXCEPT !.branches = @ \cup {"multiple_finish"}, !.raised = TRUE]
         ELSE IF ch \notin {"#", ".", " ", "S", "F"}
         THEN parse_row(row, r, c + 1, [st EXCEPT !.branches = @ \cup {"invalid_char"}])
         ELSE parse_row(row, r, c + 1, st))

\* The outer loop of Maze.from_string over the lines from line r on.
RECURSIVE parse_lines(_, _, _)
parse_lines(lines, r0, st0) ==
    Bind(<<r0, st0>>, LAMBDA a : LET r == a[1] st == a[2] IN
    IF r >= Len(lines) THEN st
    ELSE IF Len(lines[r + 1]) # Len(lines[1])
    THEN [st EXCEPT !.branches = @ \cup {"non_rectangular"}, !.raised = TRUE]
    ELSE Bind(parse_row(lines[r + 1], r, 0, st), LAMBDA after :
             IF after.raised THEN after ELSE parse_lines(lines, r + 1, after)))

\* a bug: the check for a missing finish is left out
from_string_without_finish_check(text) ==
    IF strip(text) = <<>>
    THEN [grid |-> <<>>, start |-> NoPos, finish |-> NoPos,
          branches |-> {"empty_input"}, raised |-> TRUE]
    ELSE Bind(split_lines(strip(text), <<>>), LAMBDA lines :
         Bind(parse_lines(lines, 0,
                [start |-> NoPos, finish |-> NoPos, branches |-> {}, raised |-> FALSE]),
              LAMBDA st :
             IF st.raised
             THEN [grid |-> <<>>, start |-> st.start, finish |-> st.finish,
                   branches |-> st.branches, raised |-> TRUE]
             ELSE IF st.start = NoPos
             THEN [grid |-> <<>>, start |-> NoPos, finish |-> st.finish,
                   branches |-> st.branches \cup {"no_start"}, raised |-> TRUE]
             ELSE [grid |-> lines, start |-> st.start, finish |-> st.finish,
                   branches |-> st.branches \cup {"maze_parsed"}, raised |-> FALSE]))

\* Maze.from_string(text): [grid, start, finish, branches, raised]; no Maze is
\* built (grid is empty) when it raises.
from_string(text) ==
    IF strip(text) = <<>>
    THEN [grid |-> <<>>, start |-> NoPos, finish |-> NoPos,
          branches |-> {"empty_input"}, raised |-> TRUE]
    ELSE Bind(split_lines(strip(text), <<>>), LAMBDA lines :
         Bind(parse_lines(lines, 0,
                [start |-> NoPos, finish |-> NoPos, branches |-> {}, raised |-> FALSE]),
              LAMBDA st :
             IF st.raised
             THEN [grid |-> <<>>, start |-> st.start, finish |-> st.finish,
                   branches |-> st.branches, raised |-> TRUE]
             ELSE IF st.start = NoPos
             THEN [grid |-> <<>>, start |-> NoPos, finish |-> st.finish,
                   branches |-> st.branches \cup {"no_start"}, raised |-> TRUE]
             ELSE IF st.finish = NoPos
             THEN [grid |-> <<>>, start |-> st.start, finish |-> NoPos,
                   branches |-> st.branches \cup {"no_finish"}, raised |-> TRUE]
             ELSE [grid |-> lines, start |-> st.start, finish |-> st.finish,
                   branches |-> st.branches \cup {"maze_parsed"}, raised |-> FALSE]))

\* a bug: a diagonal step is in the list
directions_with_diagonal == << <<-1, 0>>, <<1, 0>>, <<0, -1>>, <<0, 1>>, <<1, 1>> >>

\* a bug: the downward step is missing from the list
directions_no_down == << <<-1, 0>>, <<0, -1>>, <<0, 1>> >>

directions == << <<-1, 0>>, <<1, 0>>, <<0, -1>>, <<0, 1>> >>

\* The for loop of find_shortest_path over directions[d..] for the cell popped
\* with its path.  q = [queue, visited, branches].
RECURSIVE bfs_neighbours(_, _, _, _, _)
bfs_neighbours(grid, cell, path, d0, q0) ==
    Bind(<<d0, q0>>, LAMBDA a : LET d == a[1] q == a[2] IN
    IF d > Len(directions) THEN q
    ELSE LET nr == cell[1] + directions[d][1]
             nc == cell[2] + directions[d][2]
         IN  IF /\ 0 <= nr /\ nr < Len(grid)
                /\ 0 <= nc /\ nc < Len(grid[1])
                /\ <<nr, nc>> \notin q.visited
                /\ grid[nr + 1][nc + 1] # "#"
             THEN bfs_neighbours(grid, cell, path, d + 1,
                    [queue |-> Append(q.queue, [cell |-> <<nr, nc>>,
                                                path |-> Append(path, <<nr, nc>>)]),
                     visited |-> q.visited \cup {<<nr, nc>>},
                     branches |-> q.branches \cup {"queue_append"}])
             ELSE bfs_neighbours(grid, cell, path, d + 1, q))

\* The while loop of find_shortest_path.
RECURSIVE bfs_loop(_, _, _)
bfs_loop(grid, finish, q0) ==
    Bind(q0, LAMBDA q :
    IF q.queue = <<>>
    THEN [path |-> NoPath, branches |-> q.branches \cup {"no_path"}]
    ELSE Bind(Head(q.queue), LAMBDA head :
             IF head.cell = finish
             THEN [path |-> head.path, branches |-> q.branches \cup {"path_found"}]
             ELSE bfs_loop(grid, finish,
                    bfs_neighbours(grid, head.cell, head.path, 1,
                                   [q EXCEPT !.queue = Tail(q.queue)]))))

\* Maze.find_shortest_path(): [path, branches]
find_shortest_path(m) ==
    bfs_loop(m.grid, m.finish,
             [queue |-> <<[cell |-> m.start, path |-> <<m.start>>]>>,
              visited |-> {m.start},
              branches |-> {"bfs_start"}])

\* The try block of the maze campaigns: from_string, then find_shortest_path.
maze_run(text) ==
    Bind(from_string(text), LAMBDA m :
        IF m.raised THEN [branches |-> m.branches, raised |-> TRUE]
        ELSE [branches |-> m.branches \cup find_shortest_path(m).branches,
              raised |-> FALSE])

\* string.printable + "\n", reduced to the characters the random source draws here
MazePrintable == {"S", "\n"}

\* mutate_maze_string(maze_str) for a non-empty maze_str, its random choices as
\* arguments
mutate_maze_string(maze_str, mutation_type, pos, new_char) ==
    IF mutation_type = "insert"
    THEN Slice(maze_str, 0, pos) \o <<new_char>> \o Slice(maze_str, pos, Len(maze_str))
    ELSE IF mutation_type = "delete"
    THEN Slice(maze_str, 0, pos) \o Slice(maze_str, pos + 1, Len(maze_str))
    ELSE IF mutation_type = "replace"
    THEN Slice(maze_str, 0, pos) \o <<new_char>> \o Slice(maze_str, pos + 1, Len(maze_str))
    ELSE maze_str

\* Mazes generate_random_maze_string can return (3 rows of 3 columns; the last
\* has start and finish drawn on the same cell, so it has no F)
RandomMazes ==
    { <<"S", ".", ".", "\n", ".", "#", ".", "\n", ".", ".", "F">>,
      <<"S", "#", ".", "\n", "#", "#", ".", "\n", ".", ".", "F">>,
      <<"#", ".", ".", "\n", ".", "S", ".", "\n", ".", ".", "#">> }

----------------------------------------------------------------------------
(* toy_lang.py: lexer, parser, interpreter and the mutator *)

\* int(num_str) of a string of digits
digit_value(c) ==
    CASE c = "0" -> 0 [] c = "1" -> 1 [] c = "2" -> 2 [] c = "3" -> 3
      [] c = "4" -> 4 [] c = "5" -> 5 [] c = "6" -> 6 [] c = "7" -> 7
      [] c = "8" -> 8 [] c = "9" -> 9

RECURSIVE int_value(_)
int_value(num_str0) ==
    Bind(num_str0, LAMBDA num_str :
    IF num_str = <<>> THEN 0
    ELSE 10 * int_value(SubSeq(num_str, 1, Len(num_str) - 1))
         + digit_value(num_str[Len(num_str)]))

\* the index after the identifier characters that start at i
RECURSIVE scan_ident(_, _)
scan_ident(code, i0) ==
    Bind(i0, LAMBDA i :
    IF i < Len(code) /\ (isalnum(code[i + 1]) \/ code[i + 1] = "_")
    THEN scan_ident(code, i + 1) ELSE i)

\* the index after the digits that start at i
RECURSIVE scan_digits(_, _)
scan_digits(code, i0) ==
    Bind(i0, LAMBDA i :
    IF i < Len(code) /\ isdigit(code[i + 1]) THEN scan_digits(code, i + 1) ELSE i)

Token(ttype, value) == [ttype |-> ttype, value |-> value]

\* the token type and the branch of a single-character token
symbol_ttype(c) ==
    CASE c = "+" -> "PLUS" [] c = "-" -> "MINUS" [] c = "*" -> "STAR"
      [] c = "/" -> "SLASH" [] c = "=" -> "EQUALS" [] c = "(" -> "LPAREN"
      [] c = ")" -> "RPAREN" [] c = ";" -> "SEMI"

symbol_branch(c) ==
    CASE c = "+" -> "lexer_plus" [] c = "-" -> "lexer_minus" [] c = "*" -> "lexer_star"
      [] c = "/" -> "lexer_slash" [] c = "=" -> "lexer_equals" [] c = "(" -> "lexer_lparen"
      [] c = ")" -> "lexer_rparen" [] c = ";" -> "lexer_semi"

\* One pass through the body of tokenize's while loop at index i < len(code):
\* [i, tokens, branches, raised] after it.
tokenize_step(code, i, tokens, branches) ==
    LET c == code[i + 1] IN
    IF isspace(c)
    THEN [i |-> i + 1, tokens |-> tokens, branches |-> branches, raised |-> FALSE]
    ELSE IF isalpha(c)
    THEN Bind(scan_ident(code, i), LAMBDA j :
         LET ident == Slice(code, i, j)
         IN  IF ident = <<"p", "r", "i", "n", "t">>
             THEN [i |-> j, tokens |-> Append(tokens, Token("PRINT", ident)),
                   branches |-> branches \cup {"lexer_print_kw"}, raised |-> FALSE]
             ELSE [i |-> j, tokens |-> Append(tokens, Token("IDENT", ident)),
                   branches |-> branches \cup {"lexer_ident"}, raised |-> FALSE])
    ELSE IF isdigit(c)
    THEN Bind(scan_digits(code, i), LAMBDA j :
             [i |-> j,
              tokens |-> Append(tokens, Token("NUMBER", int_value(Slice(code, i, j)))),
              branches |-> branches \cup {"lexer_number"}, raised |-> FALSE])
    ELSE IF c \in {"+", "-", "*", "/", "=", "(", ")", ";"}
    THEN [i |-> i + 1, tokens |-> Append(tokens, Token(symbol_ttype(c), c)),
          branches |-> branches \cup {symbol_branch(c)}, raised |-> FALSE]
    ELSE [i |-> i, tokens |-> tokens,
          branches |-> branches \cup {"lexer_unknown_symbol"}, raised |-> TRUE]

\* The while loop of tokenize from index i on: [tokens, branches, raised].
RECURSIVE tokenize_loop(_, _, _, _)
tokenize_loop(code, i0, tokens0, branches0) ==
    Bind(<<i0, tokens0, branches0>>, LAMBDA a :
    LET i == a[1] tokens == a[2] branches == a[3] IN
    IF ~(i < Len(code))
    THEN [tokens |-> tokens, branches |-> branches \cup {"lexer_end"}, raised |-> FALSE]
    ELSE Bind(tokenize_step(code, i, tokens, branches), LAMBDA after :
             IF after.raised
             THEN [tokens |-> after.tokens, branches |-> after.branches, raised |-> TRUE]
             ELSE tokenize_loop(code, after.i, after.tokens, after.branches)))

tokenize(code) == tokenize_loop(code, 0, <<>>, {"lexer_start"})

\* Parser.current_token()
current_token(tokens, pos) ==
    IF pos < Len(tokens) THEN tokens[pos + 1] ELSE Token("EOF", <<>>)

\* The parser's state is ps = [pos, branches, raised]; a parse function
\* returns [node, ps].
advance(ps) == [ps EXCEPT !.pos = @ + 1]
parse_fail(ps, branch) ==
    [node |-> <<>>, ps |-> [ps EXCEPT !.branches = @ \cup {branch}, !.raised = TRUE]]

RECURSIVE parse_expr(_, _)
RECURSIVE parse_expr_loop(_, _)
RECURSIVE parse_term(_, _)
RECURSIVE parse_term_loop(_, _)
RECURSIVE parse_factor(_, _)

parse_factor(tokens, ps0) ==
    Bind(ps0, LAMBDA ps :
    LET tok == current_token(tokens, ps.pos) IN
    IF tok.ttype = "NUMBER"
    THEN [node |-> <<"NUMBER", tok.value>>, ps |-> advance(ps)]
    ELSE IF tok.ttype = "IDENT"
    THEN [node |-> <<"IDENT", tok.value>>, ps |-> advance(ps)]
    ELSE IF tok.ttype = "LPAREN"
    THEN Bind(parse_expr(tokens, advance(ps)), LAMBDA inner :
             IF inner.ps.raised THEN inner
             ELSE IF current_token(tokens, inner.ps.pos).ttype # "RPAREN"
             THEN parse_fail(inner.ps, "parse_factor_no_rparen")
             ELSE [node |-> inner.node, ps |-> advance(inner.ps)])
    ELSE parse_fail(ps, "parse_factor_error"))

parse_term_loop(tokens, left0) ==
    Bind(left0, LAMBDA left :
    LET op == current_token(tokens, left.ps.pos) IN
    IF op.ttype \in {"STAR", "SLASH"}
    THEN Bind(parse_factor(tokens, advance(left.ps)), LAMBDA right :
             IF right.ps.raised THEN right
             ELSE parse_term_loop(tokens,
                    [node |-> <<"BINOP", op.ttype, left.node, right.node>>,
                     ps |-> right.ps]))
    ELSE left)

parse_term(tokens, ps) ==
    Bind(parse_factor(tokens, ps), LAMBDA left :
        IF left.ps.raised THEN left ELSE parse_term_loop(tokens, left))

parse_expr_loop(tokens, left0) ==
    Bind(left0, LAMBDA left :
    LET op == current_token(tokens, left.ps.pos) IN
    IF op.ttype \in {"PLUS", "MINUS"}
    THEN Bind(parse_term(tokens, advance(left.ps)), LAMBDA right :
             IF right.ps.raised THEN right
             ELSE parse_expr_loop(tokens,
                    [node |-> <<"BINOP", op.ttype, left.node, right.node>>,
                     ps |-> right.ps]))
    ELSE left)

parse_expr(tokens, ps) ==
    Bind(parse_term(tokens, ps), LAMBDA left :
        IF left.ps.raised THEN left ELSE parse_expr_loop(tokens, left))

\* assign_stmt -> IDENT '=' expr ';'
parse_assign_stmt(tokens, ps0) ==
    Bind(ps0, LAMBDA ps :
    LET ident_token == current_token(tokens, ps.pos)
        ps1 == advance(ps)
    IN  IF current_token(tokens, ps1.pos).ttype # "EQUALS"
        THEN parse_fail(ps1, "parse_assign_no_equals")
        ELSE Bind(parse_expr(tokens, advance(ps1)), LAMBDA e :
                 IF e.ps.raised THEN e
                 ELSE IF current_token(tokens, e.ps.pos).ttype # "SEMI"
                 THEN parse_fail(e.ps, "parse_assign_no_semi")
                 ELSE [node |-> <<"ASSIGN", ident_token.value, e.node>>,
                       ps |-> advance(e.ps)]))

\* print_stmt -> 'print' '(' expr ')' ';'
parse_print_stmt(tokens, ps0) ==
    Bind(ps0, LAMBDA ps :
    LET ps1 == advance(ps)
    IN  IF current_token(tokens, ps1.pos).ttype # "LPAREN"
        THEN parse_fail(ps1, "parse_print_no_lparen")
        ELSE Bind(parse_expr(tokens, advance(ps1)), LAMBDA e :
                 IF e.ps.raised THEN e
                 ELSE IF current_token(tokens, e.ps.pos).ttype # "RPAREN"
                 THEN parse_fail(e.ps, "parse_print_no_rparen")
                 ELSE LET ps2 == advance(e.ps)
                      IN  IF current_token(tokens, ps2.pos).ttype # "SEMI"
                          THEN parse_fail(ps2, "parse_print_no_semi")
                          ELSE [node |-> <<"PRINT", e.node>>, ps |-> advance(ps2)]))

\* a bug: a ';' where a statement should start is taken as an empty statement
\* and is left in place
parse_statement_leaves_semi(tokens, ps) ==
    LET tok == current_token(tokens, ps.pos) IN
    IF tok.ttype = "IDENT"
    THEN parse_assign_stmt(tokens, [ps EXCEPT !.branches = @ \cup {"parse_stmt_assign"}])
    ELSE IF tok.ttype = "PRINT"
    THEN parse_print_stmt(tokens, [ps EXCEPT !.branches = @ \cup {"parse_stmt_print"}])
    ELSE IF tok.ttype = "SEMI"
    THEN [node |-> <<"EMPTY">>, ps |-> ps]
    ELSE parse_fail(ps, "parse_stmt_error")

parse_statement(tokens, ps) ==
    LET tok == current_token(tokens, ps.pos) IN
    IF tok.ttype = "IDENT"
    THEN parse_assign_stmt(tokens, [ps EXCEPT !.branches = @ \cup {"parse_stmt_assign"}])
    ELSE IF tok.ttype = "PRINT"
    THEN parse_print_stmt(tokens, [ps EXCEPT !.branches = @ \cup {"parse_stmt_print"}])
    ELSE parse_fail(ps, "parse_stmt_error")

\* The while loop of parse_program: [statements, ps].
RECURSIVE parse_program_loop(_, _, _)
parse_program_loop(tokens, statements0, ps0) ==
    Bind(<<statements0, ps0>>, LAMBDA a : LET statements == a[1] ps == a[2] IN
    IF current_token(tokens, ps.pos).ttype # "EOF"
    THEN Bind(parse_statement(tokens, ps), LAMBDA stmt :
             IF stmt.ps.raised THEN [statements |-> statements, ps |-> stmt.ps]
             ELSE parse_program_loop(tokens, Append(statements, stmt.node), stmt.ps))
    ELSE [statements |-> statements,
          ps |-> [ps EXCEPT !.branches = @ \cup {"parse_program_end"}]])

parse_program(tokens) ==
    parse_program_loop(tokens, <<>>,
        [pos |-> 0, branches |-> {"parse_program_start"}, raised |-> FALSE])

\* a // b of Python for b # 0: the quotient rounded down
floordiv(a, b) == IF b > 0 THEN a \div b ELSE (0 - a) \div (0 - b)

\* Interpreter.eval_expr: [value, branches, raised]
RECURSIVE eval_expr(_, _)
eval_expr(expr, variables) ==
    LET etype == expr[1] IN
    IF etype = "NUMBER"
    THEN [value |-> expr[2], branches |-> {}, raised |-> FALSE]
    ELSE IF etype = "IDENT"
    THEN IF expr[2] \notin DOMAIN variables
         THEN [value |-> 0, branches |-> {"interp_undefined_var"}, raised |-> TRUE]
         ELSE [value |-> variables[expr[2]], branches |-> {}, raised |-> FALSE]
    ELSE IF etype = "BINOP"
    THEN LET op == expr[2] IN
         Bind(eval_expr(expr[3], variables), LAMBDA l :
             IF l.raised
             THEN [l EXCEPT !.branches = @ \cup {"interp_binop"}]
             ELSE Bind(eval_expr(expr[4], variables), LAMBDA r :
                  LET br == {"interp_binop"} \cup l.branches \cup r.branches
                  IN  IF r.raised
                      THEN [value |-> 0, branches |-> br, raised |-> TRUE]
                      ELSE IF op = "PLUS"
                      THEN [value |-> l.value + r.value, branches |-> br, raised |-> FALSE]
                      ELSE IF op = "MINUS"
                      THEN [value |-> l.value - r.value, branches |-> br, raised |-> FALSE]
                      ELSE IF op = "STAR"
                      THEN [value |-> l.value * r.value, branches |-> br, raised |-> FALSE]
                      ELSE IF op = "SLASH"
                      THEN IF r.value = 0
                           THEN [value |-> 0, branches |-> br \cup {"interp_div_zero"},
                                 raised |-> TRUE]
                           ELSE [value |-> floordiv(l.value, r.value),
                                 branches |-> br, raised |-> FALSE]
                      ELSE [value |-> 0, branches |-> br \cup {"interp_unknown_op"},
                            raised |-> TRUE]))
    ELSE [value |-> 0, branches |-> {"interp_unknown_expr"}, raised |-> TRUE]

\* Interpreter.eval_statement on the state st = [variables, branches, raised]
eval_statement(stmt, st) ==
    LET stype == stmt[1] IN
    IF stype = "ASSIGN"
    THEN Bind(eval_expr(stmt[3], st.variables), LAMBDA v :
         LET br == st.branches \cup {"interp_assign"} \cup v.branches
         IN  IF v.raised THEN [st EXCEPT !.branches = br, !.raised = TRUE]
             ELSE [variables |-> [n \in DOMAIN st.variables \cup {stmt[2]} |->
                                    IF n = stmt[2] THEN v.value ELSE st.variables[n]],
                   branches |-> br, raised |-> FALSE])
    ELSE IF stype = "PRINT"
    THEN Bind(eval_expr(stmt[2], st.variables), LAMBDA v :
             [st EXCEPT !.branches = @ \cup {"interp_print"} \cup v.branches,
                        !.raised = v.raised])
    ELSE [st EXCEPT !.branches = @ \cup {"interp_unknown_stmt"}, !.raised = TRUE]

\* Interpreter.eval_program: the for loop over the statements
RECURSIVE eval_program(_, _)
eval_program(statements0, st0) ==
    Bind(<<statements0, st0>>, LAMBDA a : LET statements == a[1] st == a[2] IN
    IF statements = <<>> THEN st
    ELSE Bind(eval_statement(Head(statements), st), LAMBDA after :
             IF after.raised THEN after ELSE eval_program(Tail(statements), after)))

\* parse_and_run(code): [branches, raised]
parse_and_run(code) ==
    Bind(tokenize(code), LAMBDA lexed :
        IF lexed.raised THEN [branches |-> lexed.branches, raised |-> TRUE]
        ELSE Bind(parse_program(lexed.tokens), LAMBDA parsed :
             LET br == lexed.branches \cup parsed.ps.branches
             IN  IF parsed.ps.raised THEN [branches |-> br, raised |-> TRUE]
                 ELSE Bind(eval_program(parsed.statements,
                                   [variables |-> <<>>, branches |-> {}, raised |-> FALSE]),
                           LAMBDA ran :
                          [branches |-> br \cup ran.branches, raised |-> ran.raised])))

\* chars of random_code_string and mutate_string, reduced to the characters the
\* random source draws here
CodeChars == {"0", ";"}

\* random_code_string(max_len): every string it can return
random_code_strings(max_len) == StringsUpTo(CodeChars, Min(max_len, MaxRandLen))

\* a bug: replace cuts one character too many, "s[pos + 2:]"
mutate_string_cuts_two(s, mutation_type, pos, new_char) ==
    IF mutation_type = "insert"
    THEN Slice(s, 0, pos) \o <<new_char>> \o Slice(s, pos, Len(s))
    ELSE IF mutation_type = "delete"
    THEN Slice(s, 0, pos) \o Slice(s, pos + 1, Len(s))
    ELSE Slice(s, 0, pos) \o <<new_char>> \o Slice(s, pos + 2, Len(s))

\* mutate_string(s) for a non-empty s, its random choices as arguments
mutate_string(s, mutation_type, pos, new_char) ==
    IF mutation_type = "insert"
    THEN Slice(s, 0, pos) \o <<new_char>> \o Slice(s, pos, Len(s))
    ELSE IF mutation_type = "delete"
    THEN Slice(s, 0, pos) \o Slice(s, pos + 1, Len(s))
    ELSE Slice(s, 0, pos) \o <<new_char>> \o Slice(s, pos + 1, Len(s))

\* seeds of coverage_guided_fuzzing
toy_lang_seeds ==
    << <<"x", "=", "1", ";", "p", "r", "i", "n", "t", "(", "x", ")", ";">>,
       <<"x", "=", "2", ";", "y", "=", "3", ";", "p", "r", "i", "n", "t", "(", "x", "+", "y", ")", ";">>,
       <<"p", "r", "i", "n", "t", "(", "1", "+", "2", "*", "3", ")", ";">>,
       <<"a", "b", "c", "=", "1", "2", "3", ";", "p", "r", "i", "n", "t", "(", "a", "b", "c", ")", ";">> >>

----------------------------------------------------------------------------
(* cgf_cal.py: the expression mutator *)

OPERATORS == {<<"+">>, <<"-">>, <<"*">>, <<"/">>, <<"*", "*">>, <<"%">>}
FUNCTIONS ==
    {<<"s", "i", "n">>,
     <<"c", "o", "s">>,
     <<"t", "a", "n">>,
     <<"l", "o", "g">>,
     <<"e", "x", "p">>,
     <<"s", "q", "r", "t">>,
     <<"a", "b", "s">>}

\* seed_inputs before the fuzzing loop
seed_inputs ==
    << <<"2", " ", "+", " ", "3">>,
       <<"5", " ", "*", " ", "6">>,
       <<"l", "o", "g", "(", "1", "0", ")">>,
       <<"s", "i", "n", "(", "3", ".", "1", "4", ")">>,
       <<"e", "x", "p", "(", "2", ")">>,
       <<"x", " ", "*", "*", " ", "2">>,
       <<"s", "q", "r", "t", "(", "x", ")">>,
       <<"x", " ", "+", " ", "5", " ", "*", " ", "s", "i", "n", "(", "x", ")">>,
       <<"c", "o", "s", "(", "x", ")", " ", "/", " ", "l", "o", "g", "(", "x", " ", "+", " ", "1", ")">> >>

\* str(round(random.uniform(-20, 20), 2)), reduced to the literals the random
\* source draws here
RandomNumbers == {<<"1", ".", "5">>, <<"-", "3", ".", "1", "4">>}

\* mutate_expression(expr) with its random choices as arguments:
\* insert_function is "random.random() < 0.4", use_x is "random.random() < 0.7"
\* (drawn only when "x" is in expr), number the literal drawn by the branch
\* taken
mutate_expression(expr, insert_function, func, use_x, number, op) ==
    IF insert_function
    THEN LET value == IF Contains(expr, <<"x">>) /\ use_x THEN <<"x">> ELSE number
         IN  func \o <<"(">> \o value \o <<")">>
    ELSE <<"(">> \o expr \o <<" ">> \o op \o <<" ">> \o number \o <<")">>

\* every candidate mutate_expression can return for expr
mutate_expression_results(expr) ==
    {mutate_expression(expr, f, func, x, n, op) :
        f \in BOOLEAN, func \in FUNCTIONS, x \in BOOLEAN, n \in RandomNumbers,
        op \in OPERATORS}

----------------------------------------------------------------------------
(* What differs between the three modules *)

Drivers == {"complex_input", "maze", "toy_lang"}
Policies == {"PureRandom", "CoverageGuided"}

\* the branch the except clause of the campaign loop records
Sentinel(d) == IF d = "maze" THEN "exception" ELSE "fuzz_exception"

\* a bug: what a run recorded is dropped when it raises
sut_run_discards_raised(d, input) ==
    Bind(IF d = "complex_input"
         THEN [branches |-> process_input(input), raised |-> FALSE]
         ELSE IF d = "maze" THEN maze_run(input)
         ELSE parse_and_run(input),
         LAMBDA run : IF run.raised THEN [run EXCEPT !.branches = {}] ELSE run)

\* the try block of the campaign loop on one input: [branches, raised]
sut_run(d, input) ==
    IF d = "complex_input"
    THEN [branches |-> process_input(input), raised |-> FALSE]
    ELSE IF d = "maze" THEN maze_run(input)
    ELSE parse_and_run(input)

\* the seed lists coverage_guided_fuzzing can start with
SeedLists(d) ==
    IF d = "complex_input" THEN {complex_input_seeds}
    ELSE IF d = "maze" THEN {[i \in 1..5 |-> m] : m \in RandomMazes}
    ELSE {toy_lang_seeds}

\* a bug: the mutator goes on to draw a position in an empty seed
not_seed_unguarded(s) == FALSE

\* "if not maze_str:" / "if not s:", the guard of mutate_maze_string and
\* mutate_string
not_seed(s) == s = <<>>

\* the candidates the mutator of module d can return for seed s
Mutations(d, s) ==
    IF d = "complex_input" THEN mutate_input_results(s)
    ELSE IF d = "maze"
    THEN IF not_seed(s) THEN RandomMazes
         ELSE {mutate_maze_string(s, mt, pos, nc) :
                 mt \in MutationTypes, pos \in Positions(Len(s)), nc \in MazePrintable}
    ELSE IF not_seed(s) THEN random_code_strings(10)
         ELSE {mutate_string(s, mt, pos, nc) :
                 mt \in MutationTypes, pos \in Positions(Len(s)), nc \in CodeChars}

\* a bug: the position is drawn up to the length, "randint(0, len(s))"
randint_up_to_len(a, b) == a..(b + 1)

\* random.randint(a, b): the values it can return; none when a > b, where it
\* raises ValueError
randint(a, b) == a..b

Returned(v) == [value |-> v, raised |-> FALSE]
Raised == [value |-> <<>>, raised |-> TRUE]

\* One call of the mutator of module d on s, for every choice of the random
\* source: the candidate it returns, or that it raises.  Slices never raise;
\* a call raises when its randint has no value to return.
mutate_outcomes(d, s) ==
    IF d = "complex_input"
    THEN LET n == IF s = <<>> THEN 1 ELSE Len(s)
         IN  {Returned(mutate_input(s, fc, mt, pos, nc)) :
                fc \in Printable, mt \in MutationTypes,
                pos \in randint(0, n - 1), nc \in Printable}
    ELSE IF d = "maze"
    THEN IF not_seed(s) THEN {Returned(m) : m \in RandomMazes}
         ELSE IF randint(0, Len(s) - 1) = {} THEN {Raised}
         ELSE {Returned(mutate_maze_string(s, mt, pos, nc)) :
                 mt \in MutationTypes, pos \in randint(0, Len(s) - 1),
                 nc \in MazePrintable}
    ELSE IF not_seed(s) THEN {Returned(c) : c \in random_code_strings(10)}
         ELSE IF randint(0, Len(s) - 1) = {} THEN {Raised}
         ELSE {Returned(mutate_string(s, mt, pos, nc)) :
                 mt \in MutationTypes, pos \in randint(0, Len(s) - 1),
                 nc \in CodeChars}

\* the inputs pure_random_fuzzing of module d can draw
RandomInputs(d) ==
    IF d = "complex_input" THEN StringsUpTo(Printable, MaxRandLen)
    ELSE IF d = "maze" THEN RandomMazes
    ELSE random_code_strings(50)

\* What the module global can hold when a campaign is called: the empty dict
\* of the module's load, or what earlier executions of the SUT left in it.
ModuleMaps(d) ==
    IF d = "complex_input" THEN {{}, process_input(<<>>)}
    ELSE IF d = "maze" THEN {{}, maze_run(<<"S", "F">>).branches \cup {"visual_path"}}
    ELSE {{}, parse_and_run(<<"x", "=", "2", ";">>).branches}

Objects == {"module_dict", "campaign_dict", "temp_dict"}

\* len(coverage_map) / current_coverage_count(): the size of the dict the
\* global is bound to
current_coverage_count == Cardinality(heap[coverage_map])

\* a bug: the loop runs once more than asked, "range(iterations + 1)"
loop_runs_once_more(i, n) == i <= n

\* for _ in range(iterations): whether the body runs again after i iterations
loop_continues(i, n) == i < n

\* a bug: every recorded set replaces the dict instead of adding to it
record_coverage_overwrite(map, branches) == branches

\* record_coverage for every branch of a set: the keys of the dict after
\* "map[branch] = 1" for each of them
record_coverage(map, branches) == map \cup branches

\* a bug: the except clause passes without recording anything
except_swallowed(d, exception_raised) == {}

\* what the except clause of the loop body records
except_branches(d, exception_raised) ==
    IF exception_raised THEN {Sentinel(d)} ELSE {}

\* a bug: the except clause runs the same input again
after_execute_retry(p, exception_raised) ==
    IF exception_raised THEN "exec"
    ELSE IF p = "CoverageGuided" THEN "update" ELSE "record"

\* a bug: the except clause returns from the campaign
after_execute_early_return(p, exception_raised) ==
    IF exception_raised THEN "done"
    ELSE IF p = "CoverageGuided" THEN "update" ELSE "record"

\* where the loop body goes on after its try/except, whether or not the
\* except clause ran
after_execute(p, exception_raised) ==
    IF p = "CoverageGuided" THEN "update" ELSE "record"

----------------------------------------------------------------------------
(* The campaign functions *)

Init ==
    /\ driver \in Drivers
    /\ pc = "idle"
    /\ policy = None
    /\ iterations = 0
    /\ it = 0
    /\ \E m \in ModuleMaps(driver) :
         heap = [o \in Objects |-> IF o = "module_dict" THEN m ELSE {}]
    /\ coverage_map = "module_dict"
    /\ saved_map = None
    /\ temp_map = None
    /\ seeds = <<>>
    /\ total_coverage = {}
    /\ coverage_history = <<>>
    /\ seed = <<>>
    /\ mutated = <<>>
    /\ raised = FALSE
    /\ always_raised = TRUE
    /\ result = <<>>
    /\ coverage_history_random = <<>>
    /\ cov_random = {}
    /\ threads = <<>>
    /\ NoDatabase

\* The call and the lines before the loop: the global is rebound to a new
\* empty dict (the dict it was bound to is dropped), the history is empty;
\* coverage_guided_fuzzing also builds its seeds and its empty branch set.
Start ==
    /\ UNCHANGED main_locals
    /\ UNCHANGED elsewhere
    /\ pc = "idle"
    /\ \E p \in Policies, n \in (-1)..MaxIter :
         /\ policy' = p
         /\ iterations' = n
         /\ IF p = "CoverageGuided"
            THEN \E sl \in SeedLists(driver) : seeds' = sl
            ELSE seeds' = <<>>
    /\ heap' = [o \in Objects |-> {}]
    /\ coverage_map' = "campaign_dict"
    /\ total_coverage' = {}
    /\ coverage_history' = <<>>
    /\ it' = 0
    /\ pc' = "loop"
    /\ UNCHANGED <<driver, saved_map, temp_map, seed, mutated, raised,
                   always_raised, result>>

\* a bug: the random campaign keeps every input it draws in the corpus
Generate_keeps_input ==
    /\ UNCHANGED main_locals
    /\ UNCHANGED elsewhere
    /\ pc = "loop"
    /\ policy = "PureRandom"
    /\ loop_continues(it, iterations)
    /\ \E input \in RandomInputs(driver) :
         /\ mutated' = input
         /\ seeds' = Append(seeds, input)
    /\ pc' = "exec"
    /\ UNCHANGED <<driver, policy, iterations, it, heap, coverage_map, saved_map,
                   temp_map, total_coverage, coverage_history, seed,
                   raised, always_raised, result>>

\* pure_random_fuzzing, top of the loop body: draw a fresh random input.
Generate ==
    /\ UNCHANGED main_locals
    /\ UNCHANGED elsewhere
    /\ pc = "loop"
    /\ policy = "PureRandom"
    /\ loop_continues(it, iterations)
    /\ \E input \in RandomInputs(driver) : mutated' = input
    /\ pc' = "exec"
    /\ UNCHANGED <<driver, policy, iterations, it, heap, coverage_map, saved_map,
                   temp_map, seeds, total_coverage, coverage_history, seed,
                   raised, always_raised, result>>

\* a bug: the seed is executed as it is, the mutator's result is dropped
Select_runs_seed ==
    /\ UNCHANGED main_locals
    /\ UNCHANGED elsewhere
    /\ pc = "loop"
    /\ policy = "CoverageGuided"
    /\ loop_continues(it, iterations)
    /\ seeds # <<>>
    /\ \E i \in 1..Len(seeds) :
         /\ seed' = seeds[i]
         /\ mutated' = seeds[i]
    /\ temp_map' = "temp_dict"
    /\ heap' = [heap EXCEPT !["temp_dict"] = {}]
    /\ saved_map' = coverage_map
    /\ coverage_map' = "temp_dict"
    /\ pc' = "exec"
    /\ UNCHANGED <<driver, policy, iterations, it, seeds, total_coverage,
                   coverage_history, raised, always_raised, result>>

\* a bug: the seed is taken out of the corpus, "seeds.pop(...)"
Select_pops_seed ==
    /\ UNCHANGED main_locals
    /\ UNCHANGED elsewhere
    /\ pc = "loop"
    /\ policy = "CoverageGuided"
    /\ loop_continues(it, iterations)
    /\ seeds # <<>>
    /\ \E i \in 1..Len(seeds) :
         /\ seed' = seeds[i]
         /\ seeds' = SubSeq(seeds, 1, i - 1) \o SubSeq(seeds, i + 1, Len(seeds))
         /\ \E m \in Mutations(driver, seeds[i]) : mutated' = m
    /\ temp_map' = "temp_dict"
    /\ heap' = [heap EXCEPT !["temp_dict"] = {}]
    /\ saved_map' = coverage_map
    /\ coverage_map' = "temp_dict"
    /\ pc' = "exec"
    /\ UNCHANGED <<driver, policy, iterations, it, total_coverage,
                   coverage_history, raised, always_raised, result>>

\* coverage_guided_fuzzing, top of the loop body: pick a seed, mutate it, and
\* rebind the global to a new empty temp_map, keeping the old dict in saved_map.
Select ==
    /\ UNCHANGED main_locals
    /\ UNCHANGED elsewhere
    /\ pc = "loop"
    /\ policy = "CoverageGuided"
    /\ loop_continues(it, iterations)
    /\ seeds # <<>>
    /\ \E i \in 1..Len(seeds) :
         /\ seed' = seeds[i]
         /\ \E m \in Mutations(driver, seeds[i]) : mutated' = m
    /\ temp_map' = "temp_dict"
    /\ heap' = [heap EXCEPT !["temp_dict"] = {}]
    /\ saved_map' = coverage_map
    /\ coverage_map' = "temp_dict"
    /\ pc' = "exec"
    /\ UNCHANGED <<driver, policy, iterations, it, seeds, total_coverage,
                   coverage_history, raised, always_raised, result>>

\* The try/except of the loop body: run the SUT on the input; every branch it
\* records goes into the dict the global is bound to, and so does the sentinel
\* when it raises.
Execute ==
    /\ UNCHANGED main_locals
    /\ UNCHANGED elsewhere
    /\ pc = "exec"
    /\ \E run \in {sut_run(driver, mutated)} :
         /\ heap' = [heap EXCEPT ![coverage_map] =
                        record_coverage(@, run.branches
                                           \cup except_branches(driver, run.raised))]
         /\ raised' = run.raised
         /\ always_raised' = (always_raised /\ run.raised)
         /\ pc' = after_execute(policy, run.raised)
    /\ UNCHANGED <<driver, policy, iterations, it, coverage_map, saved_map,
                   temp_map, seeds, total_coverage, coverage_history, seed,
                   mutated, result>>

\* pure_random_fuzzing, end of the loop body: append the size of the map.
\* The locals of the iteration are dead from here on (each is assigned again
\* before it is read) and are reset.
Record ==
    /\ UNCHANGED main_locals
    /\ UNCHANGED elsewhere
    /\ pc = "record"
    /\ coverage_history' = Append(coverage_history, current_coverage_count)
    /\ it' = it + 1
    /\ mutated' = <<>>
    /\ raised' = FALSE
    /\ pc' = "loop"
    /\ UNCHANGED <<driver, policy, iterations, heap, coverage_map, saved_map,
                   temp_map, seeds, total_coverage, seed, always_raised, result>>

\* a bug: the branch set is replaced by the branches that are new instead of
\* being extended by them
next_total_coverage_replaced(d, total, new_branches, merged) == new_branches

\* the branch set the novelty test of the next iteration is made against
next_total_coverage(d, total, new_branches, merged) ==
    IF d = "maze" THEN merged ELSE total \cup new_branches

\* a bug: the corpus keeps its size, the candidate replaces the oldest entry
next_seeds_replace_oldest(corpus, new_branches, candidate) ==
    IF new_branches # {} THEN Append(Tail(corpus), candidate) ELSE corpus

\* a bug: the candidate is kept whether or not it fired anything new
next_seeds_always(corpus, new_branches, candidate) == Append(corpus, candidate)

\* the corpus after the novelty test
next_seeds(corpus, new_branches, candidate) ==
    IF new_branches # {} THEN Append(corpus, candidate) ELSE corpus

\* a bug: the temporary map is kept as the campaign's map
merge_overwrite(saved, temp) == temp

\* a bug: the merge loop is skipped
merge_skipped(saved, temp) == saved

\* the saved map after the merge loop over temp_map
merge(saved, temp) == saved \cup temp

\* coverage_guided_fuzzing, rest of the loop body: the novelty test, the merge
\* of temp_map into saved_map, the global bound to saved_map again, the history
\* entry.  maze.py then rebuilds total_covered_branches from the merged map and
\* appends its size.  The locals of the iteration are dead from here on and
\* are reset; the temp dict is dropped.
Update ==
    /\ UNCHANGED main_locals
    /\ UNCHANGED elsewhere
    /\ pc = "update"
    /\ LET new_branches == heap[temp_map] \ total_coverage
           merged == merge(heap[saved_map], heap[temp_map])
           total == next_total_coverage(driver, total_coverage, new_branches, merged)
       IN  /\ seeds' = next_seeds(seeds, new_branches, mutated)
           /\ total_coverage' = total
           /\ heap' = [heap EXCEPT ![saved_map] = merged, ![temp_map] = {}]
           /\ coverage_history' =
                Append(coverage_history,
                       IF driver = "maze" THEN Cardinality(total)
                       ELSE Cardinality(merged))
    /\ coverage_map' = saved_map
    /\ saved_map' = None
    /\ temp_map' = None
    /\ it' = it + 1
    /\ seed' = <<>>
    /\ mutated' = <<>>
    /\ raised' = FALSE
    /\ pc' = "loop"
    /\ UNCHANGED <<driver, policy, iterations, always_raised, result>>

\* The loop is over: return.  maze.py returns a copy of the map and the
\* history, the other two modules the history alone.
Return ==
    /\ UNCHANGED main_locals
    /\ UNCHANGED elsewhere
    /\ pc = "loop"
    /\ ~loop_continues(it, iterations)
    /\ result' = IF driver = "maze"
                 THEN <<heap[coverage_map], coverage_history>>
                 ELSE <<coverage_history>>
    /\ pc' = "done"
    /\ UNCHANGED <<driver, policy, iterations, it, heap, coverage_map, saved_map,
                   temp_map, seeds, total_coverage, coverage_history, seed,
                   mutated, raised, always_raised>>

Next ==
    \/ Start
    \/ Generate
    \/ Select
    \/ Execute
    \/ Record
    \/ Update
    \/ Return

Spec == Init /\ [][Next]_vars

\* The campaign function is one thread of straight-line Python: a step that
\* can be taken is taken.
LiveSpec == Spec /\ WF_vars(Next)

----------------------------------------------------------------------------
(* main: the random campaign, then the guided campaign on the same budget *)

\* main calls pure_random_fuzzing(iterations=N) with a positive literal N
CallRandom ==
    /\ Start
    /\ policy' = "PureRandom"
    /\ iterations' >= 1

\* a bug: coverage_guided_fuzzing lacks its "coverage_map = {}" and goes on
\* with the dict the random campaign filled
CallGuided_keeps_map ==
    /\ UNCHANGED elsewhere
    /\ pc = "done"
    /\ policy = "PureRandom"
    /\ coverage_history_random' = coverage_history
    /\ cov_random' = heap[coverage_map]
    /\ policy' = "CoverageGuided"
    /\ \E sl \in SeedLists(driver) : seeds' = sl
    /\ total_coverage' = {}
    /\ coverage_history' = <<>>
    /\ it' = 0
    /\ pc' = "loop"
    /\ UNCHANGED <<driver, iterations, heap, coverage_map, saved_map, temp_map,
                   seed, mutated, raised, always_raised, result>>

\* pure_random_fuzzing has returned; main keeps its history and calls
\* coverage_guided_fuzzing with the same iteration count, which rebinds the
\* global to a new empty dict and builds its seeds.
CallGuided ==
    /\ UNCHANGED elsewhere
    /\ pc = "done"
    /\ policy = "PureRandom"
    /\ coverage_history_random' = coverage_history
    /\ cov_random' = heap[coverage_map]
    /\ policy' = "CoverageGuided"
    /\ \E sl \in SeedLists(driver) : seeds' = sl
    /\ heap' = [o \in Objects |-> {}]
    /\ coverage_map' = "campaign_dict"
    /\ total_coverage' = {}
    /\ coverage_history' = <<>>
    /\ it' = 0
    /\ pc' = "loop"
    /\ UNCHANGED <<driver, iterations, saved_map, temp_map, seed, mutated,
                   raised, always_raised, result>>

MainNext ==
    \/ CallRandom
    \/ Generate
    \/ Select
    \/ Execute
    \/ Record
    \/ Update
    \/ Return
    \/ CallGuided

MainSpec == Init /\ [][MainNext]_vars

----------------------------------------------------------------------------
(* Two threads that each call coverage_guided_fuzzing of the same module.   *)
(* The module global and the dicts are shared by the threads of a process;  *)
(* the locals of the function are each thread's own.  A thread can be       *)
(* switched out between any two bytecodes; the steps here are the steps of  *)
(* the single-threaded campaign, so every interleaving here is one of the   *)
(* program's.                                                               *)

Threads == {1, 2}

\* the iteration count the threads call the campaign function with
MaxThreadIter == 1

\* the dict objects two campaigns create: one "coverage_map = {}" per call and
\* one "temp_map = {}" per iteration
ThreadObjects ==
    {<<"module_dict">>}
    \cup {<<"campaign_dict", t>> : t \in Threads}
    \cup {<<"temp_dict", t, i>> : t \in Threads, i \in 0..(MaxThreadIter - 1)}

\* the main thread's campaign variables stay as the module was imported
CampaignIdle ==
    UNCHANGED <<driver, pc, policy, iterations, it, saved_map, temp_map, seeds,
                total_coverage, coverage_history, seed, mutated, raised,
                always_raised, result, coverage_history_random, cov_random,
                parser>>
    /\ UNCHANGED db_vars

ThreadInit ==
    /\ driver \in Drivers
    /\ pc = "idle"
    /\ policy = None
    /\ iterations = 0
    /\ it = 0
    /\ heap = [o \in ThreadObjects |-> {}]
    /\ coverage_map = <<"module_dict">>
    /\ saved_map = None
    /\ temp_map = None
    /\ seeds = <<>>
    /\ total_coverage = {}
    /\ coverage_history = <<>>
    /\ seed = <<>>
    /\ mutated = <<>>
    /\ raised = FALSE
    /\ always_raised = TRUE
    /\ result = <<>>
    /\ coverage_history_random = <<>>
    /\ cov_random = {}
    /\ threads = [t \in Threads |->
                    [pc |-> "idle", it |-> 0, saved_map |-> None,
                     temp_map |-> None, seeds |-> <<>>, total_coverage |-> {},
                     coverage_history |-> <<>>, mutated |-> <<>>,
                     fired |-> {}, alone_history |-> <<>>, result |-> {}]]
    /\ NoDatabase

\* the call and the lines before the loop, on thread t: the global is bound
\* to a new empty dict
ThreadStart(t) ==
    /\ threads[t].pc = "idle"
    /\ coverage_map' = <<"campaign_dict", t>>
    /\ \E sl \in SeedLists(driver) :
         threads' = [threads EXCEPT ![t].seeds = sl, ![t].pc = "loop"]
    /\ UNCHANGED heap
    /\ CampaignIdle

\* top of the loop body on thread t: the seed, the candidate, the new temp
\* dict, the global saved in the local and bound to the temp dict
ThreadSelect(t) ==
    /\ threads[t].pc = "loop"
    /\ loop_continues(threads[t].it, MaxThreadIter)
    /\ \E i \in 1..Len(threads[t].seeds) :
         \E m \in Mutations(driver, threads[t].seeds[i]) :
            threads' = [threads EXCEPT
                          ![t].mutated = m,
                          ![t].temp_map = <<"temp_dict", t, threads[t].it>>,
                          ![t].saved_map = coverage_map,
                          ![t].pc = "exec"]
    /\ coverage_map' = <<"temp_dict", t, threads[t].it>>
    /\ UNCHANGED heap
    /\ CampaignIdle

\* the try/except on thread t: record_coverage writes into the dict the
\* global is bound to when it runs.  fired is what this thread's executions
\* recorded, wherever it went.
ThreadExecute(t) ==
    /\ threads[t].pc = "exec"
    /\ LET run == sut_run(driver, threads[t].mutated)
           recorded == run.branches \cup except_branches(driver, run.raised)
       IN  /\ heap' = [heap EXCEPT ![coverage_map] = record_coverage(@, recorded)]
           /\ threads' = [threads EXCEPT
                            ![t].fired = @ \cup recorded,
                            ![t].pc = "update"]
    /\ UNCHANGED coverage_map
    /\ CampaignIdle

\* rest of the loop body on thread t.  alone_history is the entry the
\* iteration appends when no other thread runs: the number of branches the
\* thread's executions recorded so far.
ThreadUpdate(t) ==
    /\ threads[t].pc = "update"
    /\ LET me == threads[t]
           new_branches == heap[me.temp_map] \ me.total_coverage
           merged == merge(heap[me.saved_map], heap[me.temp_map])
           total == next_total_coverage(driver, me.total_coverage, new_branches,
                                        merged)
       IN  /\ heap' = [heap EXCEPT ![me.saved_map] = merged]
           /\ threads' = [threads EXCEPT
                ![t].seeds = next_seeds(me.seeds, new_branches, me.mutated),
                ![t].total_coverage = total,
                ![t].coverage_history =
                    Append(@, IF driver = "maze" THEN Cardinality(total)
                              ELSE Cardinality(merged)),
                ![t].alone_history = Append(@, Cardinality(me.fired)),
                ![t].it = @ + 1,
                ![t].pc = "loop"]
           /\ coverage_map' = me.saved_map
    /\ CampaignIdle

\* the loop is over on thread t; result is the dict the global is bound to
\* when the function returns (maze.py returns a copy of it)
ThreadReturn(t) ==
    /\ threads[t].pc = "loop"
    /\ ~loop_continues(threads[t].it, MaxThreadIter)
    /\ threads' = [threads EXCEPT ![t].result = heap[coverage_map],
                                  ![t].pc = "done"]
    /\ UNCHANGED <<heap, coverage_map>>
    /\ CampaignIdle

ThreadNext ==
    \E t \in Threads :
        \/ ThreadStart(t)
        \/ ThreadSelect(t)
        \/ ThreadExecute(t)
        \/ ThreadUpdate(t)
        \/ ThreadReturn(t)

ThreadSpec == ThreadInit /\ [][ThreadNext]_vars

----------------------------------------------------------------------------
(* The demonstration at the top of maze.py's main: parse a maze, then solve *)
(* it, recording into the dict the module was loaded with.                  *)

\* sample_maze of main
sample_maze ==
    <<"S", ".", "#", ".", "\n", ".", "#", "F", ".", "\n", ".", ".", ".", ".", "\n">>

\* a maze without walls
open_maze == <<"S", ".", ".", "\n", ".", ".", ".", "\n", ".", ".", "F">>

\* the mazes the demonstration is run on: sample_maze and the strings one
\* edit away from it, the mazes of the random generator, a maze without walls
DemoMazes ==
    {sample_maze, open_maze, <<>>, <<" ", "\n">>}
    \cup RandomMazes
    \cup {mutate_maze_string(sample_maze, mt, pos, nc) :
             mt \in MutationTypes, pos \in 0..(Len(sample_maze) - 1),
             nc \in {"S", "F", "#", "\n"}}

DemoInit ==
    /\ driver = "maze"
    /\ pc = "demo_call"
    /\ mutated \in DemoMazes
    /\ policy = None
    /\ iterations = 0
    /\ it = 0
    /\ heap = [o \in Objects |-> {}]
    /\ coverage_map = "module_dict"
    /\ saved_map = None
    /\ temp_map = None
    /\ seeds = <<>>
    /\ total_coverage = {}
    /\ coverage_history = <<>>
    /\ seed = <<>>
    /\ raised = FALSE
    /\ always_raised = TRUE
    /\ result = <<>>
    /\ coverage_history_random = <<>>
    /\ cov_random = {}
    /\ threads = <<>>
    /\ NoDatabase

\* m = Maze.from_string(sample_maze); a ValueError goes to main's except
DemoParse ==
    /\ pc = "demo_call"
    /\ LET m == from_string(mutated)
       IN  /\ heap' = [heap EXCEPT ![coverage_map] = record_coverage(@, m.branches)]
           /\ raised' = m.raised
           /\ result' = IF m.raised THEN <<>>
                        ELSE [grid |-> m.grid, start |-> m.start, finish |-> m.finish]
           /\ pc' = IF m.raised THEN "demo_error" ELSE "demo_parsed"
    /\ UNCHANGED <<driver, policy, iterations, it, coverage_map, saved_map,
                   temp_map, seeds, total_coverage, coverage_history, seed,
                   mutated, always_raised>>
    /\ UNCHANGED main_locals
    /\ UNCHANGED elsewhere

\* path = m.find_shortest_path()
DemoSolve ==
    /\ pc = "demo_parsed"
    /\ LET found == find_shortest_path(result)
       IN  /\ heap' = [heap EXCEPT ![coverage_map] = record_coverage(@, found.branches)]
           /\ result' = found.path
    /\ pc' = "demo_solved"
    /\ UNCHANGED <<driver, policy, iterations, it, coverage_map, saved_map,
                   temp_map, seeds, total_coverage, coverage_history, seed,
                   mutated, raised, always_raised>>
    /\ UNCHANGED main_locals
    /\ UNCHANGED elsewhere

DemoNext ==
    \/ DemoParse
    \/ DemoSolve

DemoSpec == DemoInit /\ [][DemoNext]_vars

----------------------------------------------------------------------------
(* keyvalue_db.py: one KeyValueDatabase, the worker threads that call its   *)
(* methods and its cleanup thread.  self.lock is a threading.Lock: acquiring *)
(* it blocks while any thread holds it, the caller included.  A thread's     *)
(* stack is the sequence of its calls in progress; a frame is                *)
(* [method, pc, key].                                                        *)

Workers == {"thread1", "thread2"}

CleanupThread == "cleanup_thread"

DbThreads == Workers \cup {CleanupThread}

\* the keys and the transaction ids of the calls
DbKeys == {"user1"}

TxnIds == {"txn1"}

\* the methods a worker calls
DbMethods ==
    {"set", "get", "delete", "reset", "begin_transaction", "commit_transaction",
     "rollback_transaction"}

Frame(m, p, k) == [method |-> m, pc |-> p, key |-> k]

\* the call in progress of a stack
Top(st) == st[Len(st)]

\* the caller goes on at pc p once the callee, which starts by acquiring the
\* lock, has returned
CallLocked(st, p, callee) ==
    Append([st EXCEPT ![Len(st)].pc = p], Frame(callee, "acquire", None))

\* return from the call in progress
Pop(st) == SubSeq(st, 1, Len(st) - 1)

\* a bug: delete leaves the key's expiry time in ttl_data
ttl_after_delete_kept(ttl, key) == ttl

\* delete: "if key in self.ttl_data: del self.ttl_data[key]"
ttl_after_delete(ttl, key) == ttl \ {key}

\* __init__: the lock is free, data is what the file held, the cleanup
\* thread is started; the workers have not called anything yet
DbInit ==
    /\ driver = "keyvalue_db"
    /\ pc = "idle"
    /\ policy = None
    /\ iterations = 0
    /\ it = 0
    /\ heap = [o \in Objects |-> {}]
    /\ coverage_map = "module_dict"
    /\ saved_map = None
    /\ temp_map = None
    /\ seeds = <<>>
    /\ total_coverage = {}
    /\ coverage_history = <<>>
    /\ seed = <<>>
    /\ mutated = <<>>
    /\ raised = FALSE
    /\ always_raised = TRUE
    /\ result = <<>>
    /\ coverage_history_random = <<>>
    /\ cov_random = {}
    /\ threads = <<>>
    /\ parser = "None"
    /\ lock = None
    /\ db_data \in SUBSET DbKeys
    /\ ttl_data \in SUBSET db_data
    /\ transactions = {}
    /\ stacks = [t \in DbThreads |->
                   IF t = CleanupThread
                   THEN <<Frame("_cleanup_expired_keys", "sleep", None)>>
                   ELSE <<>>]

\* nothing but the database and its threads changes
DbOnly ==
    UNCHANGED <<driver, pc, policy, iterations, it, heap, coverage_map,
                saved_map, temp_map, seeds, total_coverage, coverage_history,
                seed, mutated, raised, always_raised, result,
                coverage_history_random, cov_random, threads, parser>>

\* worker_thread: the next operation of a worker.  get starts without the
\* lock, every other method with "with self.lock"; begin_transaction draws
\* an id that is not in use.
DbCall(t) ==
    /\ t \in Workers
    /\ stacks[t] = <<>>
    /\ \E m \in DbMethods :
         \E k \in (IF m = "begin_transaction"
                   THEN TxnIds \ {x.id : x \in transactions}
                   ELSE IF m \in {"commit_transaction", "rollback_transaction"}
                   THEN TxnIds
                   ELSE DbKeys) :
            stacks' = [stacks EXCEPT
                         ![t] = <<Frame(m, IF m = "get" THEN "check" ELSE "acquire", k)>>]
    /\ UNCHANGED <<lock, db_data, ttl_data, transactions>>
    /\ DbOnly

\* get: an expired key is deleted through delete(), which takes the lock;
\* whether a key with a TTL has expired depends on the clock
DbGet(t) ==
    /\ stacks[t] # <<>>
    /\ Top(stacks[t]).method = "get"
    /\ IF Top(stacks[t]).pc = "check"
       THEN \E expired \in (IF Top(stacks[t]).key \in ttl_data
                            THEN {TRUE, FALSE} ELSE {FALSE}) :
               stacks' = [stacks EXCEPT ![t] =
                            IF expired
                            THEN Append([@ EXCEPT ![Len(@)].pc = "after_delete"],
                                        Frame("delete", "acquire", Top(@).key))
                            ELSE Pop(@)]
       ELSE stacks' = [stacks EXCEPT ![t] = Pop(@)]
    /\ UNCHANGED <<lock, db_data, ttl_data, transactions>>
    /\ DbOnly

\* time.sleep(5) of the cleanup loop is over
DbSleep(t) ==
    /\ stacks[t] # <<>>
    /\ Top(stacks[t]).pc = "sleep"
    /\ stacks' = [stacks EXCEPT ![t] = [@ EXCEPT ![Len(@)].pc = "acquire"]]
    /\ UNCHANGED <<lock, db_data, ttl_data, transactions>>
    /\ DbOnly

\* "with self.lock:" on entry: possible when no thread holds the lock
DbAcquire(t) ==
    /\ stacks[t] # <<>>
    /\ Top(stacks[t]).pc = "acquire"
    /\ lock = None
    /\ lock' = t
    /\ stacks' = [stacks EXCEPT ![t] = [@ EXCEPT ![Len(@)].pc = "locked"]]
    /\ UNCHANGED <<db_data, ttl_data, transactions>>
    /\ DbOnly

\* The body of a "with self.lock:" block up to its next call of a method that
\* takes the lock (_save_database, _log_operation), or to its end, where the
\* lock is released and the method returns.
DbRun(t) ==
    /\ stacks[t] # <<>>
    /\ Top(stacks[t]).pc \in {"locked", "after_save", "after_log"}
    /\ LET st == stacks[t]
           f == Top(st)
           calls(p, callee, d, ttl, txns) ==
               /\ stacks' = [stacks EXCEPT ![t] = CallLocked(st, p, callee)]
               /\ db_data' = d
               /\ ttl_data' = ttl
               /\ transactions' = txns
               /\ UNCHANGED lock
           returns(txns) ==
               /\ stacks' = [stacks EXCEPT ![t] = Pop(st)]
               /\ lock' = None
               /\ transactions' = txns
               /\ UNCHANGED <<db_data, ttl_data>>
       IN  IF f.method \in {"_save_database", "_log_operation"}
           THEN returns(transactions)
           ELSE IF f.method = "_cleanup_expired_keys"
           THEN IF f.pc = "locked"
                THEN \E expired_keys \in SUBSET ttl_data :
                        calls("after_save", "_save_database",
                              db_data \ expired_keys, ttl_data \ expired_keys,
                              transactions)
                ELSE /\ stacks' = [stacks EXCEPT ![t] = [st EXCEPT ![Len(st)].pc = "sleep"]]
                     /\ lock' = None
                     /\ UNCHANGED <<db_data, ttl_data, transactions>>
           ELSE IF f.method = "begin_transaction"
           THEN returns(transactions \cup {[id |-> f.key, snapshot |-> db_data]})
           ELSE IF f.method = "rollback_transaction"
           THEN returns({x \in transactions : x.id # f.key})
           ELSE IF f.pc = "after_log"
           THEN returns(transactions)
           ELSE IF f.pc = "after_save"
           THEN calls("after_log", "_log_operation", db_data, ttl_data,
                      IF f.method = "commit_transaction"
                      THEN {x \in transactions : x.id # f.key}
                      ELSE transactions)
           ELSE IF f.method = "set"
           THEN \E with_ttl \in BOOLEAN :
                   calls("after_save", "_save_database", db_data \cup {f.key},
                         IF with_ttl THEN ttl_data \cup {f.key} ELSE ttl_data,
                         transactions)
           ELSE IF f.method = "delete"
           THEN IF f.key \in db_data
                THEN calls("after_save", "_save_database", db_data \ {f.key},
                           ttl_after_delete(ttl_data, f.key), transactions)
                ELSE returns(transactions)
           ELSE IF f.method = "reset"
           THEN calls("after_save", "_save_database", {}, {}, transactions)
           ELSE IF \E x \in transactions : x.id = f.key
           THEN calls("after_save", "_save_database",
                      (CHOOSE x \in transactions : x.id = f.key).snapshot,
                      ttl_data, transactions)
           ELSE returns(transactions)
    /\ DbOnly

DbNext ==
    \E t \in DbThreads :
        \/ DbCall(t)
        \/ DbGet(t)
        \/ DbSleep(t)
        \/ DbAcquire(t)
        \/ DbRun(t)

DbSpec == DbInit /\ [][DbNext]_vars

----------------------------------------------------------------------------
(* The mutators called on their own *)

\* the seeds a mutator is called on: every short string of its alphabet and
\* the seeds of its campaign
MutatorInputs(d) ==
    IF d = "complex_input"
    THEN StringsUpTo(Printable, MaxSeedLen)
         \cup {complex_input_seeds[i] : i \in 1..Len(complex_input_seeds)}
    ELSE IF d = "maze" THEN StringsUpTo(MazePrintable, MaxSeedLen) \cup RandomMazes
    ELSE IF d = "toy_lang"
    THEN StringsUpTo(CodeChars, MaxSeedLen)
         \cup {toy_lang_seeds[i] : i \in 1..Len(toy_lang_seeds)}
    ELSE {seed_inputs[i] : i \in 1..Len(seed_inputs)}

MutInit ==
    /\ driver \in Drivers \cup {"cgf_cal"}
    /\ pc = "mutator_call"
    /\ seed \in MutatorInputs(driver)
    /\ mutated = <<>>
    /\ raised = FALSE
    /\ policy = None
    /\ iterations = 0
    /\ it = 0
    /\ heap = [o \in Objects |-> {}]
    /\ coverage_map = "module_dict"
    /\ saved_map = None
    /\ temp_map = None
    /\ seeds = <<>>
    /\ total_coverage = {}
    /\ coverage_history = <<>>
    /\ always_raised = TRUE
    /\ result = <<>>
    /\ coverage_history_random = <<>>
    /\ cov_random = {}
    /\ threads = <<>>
    /\ NoDatabase

\* mutate_input(seed), mutate_maze_string(seed), mutate_string(seed)
MutateText ==
    /\ UNCHANGED main_locals
    /\ UNCHANGED elsewhere
    /\ pc = "mutator_call"
    /\ driver \in Drivers
    /\ \E o \in mutate_outcomes(driver, seed) :
         /\ mutated' = o.value
         /\ raised' = o.raised
    /\ pc' = "mutator_return"
    /\ UNCHANGED <<driver, policy, iterations, it, heap, coverage_map, saved_map,
                   temp_map, seeds, total_coverage, coverage_history, seed,
                   always_raised, result>>

\* mutate_expression(seed)
MutateExpression ==
    /\ UNCHANGED main_locals
    /\ UNCHANGED elsewhere
    /\ pc = "mutator_call"
    /\ driver = "cgf_cal"
    /\ \E m \in mutate_expression_results(seed) : mutated' = m
    /\ pc' = "mutator_return"
    /\ UNCHANGED <<driver, policy, iterations, it, heap, coverage_map, saved_map,
                   temp_map, seeds, total_coverage, coverage_history, seed,
                   raised, always_raised, result>>

MutNext ==
    \/ MutateText
    \/ MutateExpression

MutSpec == MutInit /\ [][MutNext]_vars

----------------------------------------------------------------------------
(* toy_lang.py: one parse_and_run(code) followed loop step by loop step *)

MaxCodeLen == 3

\* one character of every class tokenize tells apart, "$" for an unknown symbol
ParseChars == {"x", "1", "=", ";", "+", "(", " ", "$"}

\* the code parse_and_run is called on
ParseInputs ==
    StringsUpTo(ParseChars, MaxCodeLen)
    \cup {toy_lang_seeds[i] : i \in 1..Len(toy_lang_seeds)}
    \cup {<<"x", "=", "(", "1", ")", ";", ";">>,
          <<"p", "r", "i", "n", "t", "(", "y", ")", ";">>}

ParseInit ==
    /\ driver = "toy_lang"
    /\ pc = "tokenize"
    /\ mutated \in ParseInputs
    /\ parser = [i |-> 0, tokens |-> <<>>, pos |-> 0, statements |-> <<>>]
    /\ heap = [o \in Objects |-> IF o = "module_dict" THEN {"lexer_start"} ELSE {}]
    /\ coverage_map = "module_dict"
    /\ raised = FALSE
    /\ seed = <<>>
    /\ policy = None
    /\ iterations = 0
    /\ it = 0
    /\ saved_map = None
    /\ temp_map = None
    /\ seeds = <<>>
    /\ total_coverage = {}
    /\ coverage_history = <<>>
    /\ always_raised = TRUE
    /\ result = <<>>
    /\ coverage_history_random = <<>>
    /\ cov_random = {}
    /\ threads = <<>>
    /\ lock = "None"
    /\ db_data = {}
    /\ ttl_data = {}
    /\ transactions = {}
    /\ stacks = <<>>

\* nothing but the followed call changes
ParseOnly ==
    UNCHANGED <<driver, policy, iterations, it, coverage_map, saved_map, temp_map,
                seeds, total_coverage, coverage_history, seed, mutated,
                always_raised, result, coverage_history_random, cov_random,
                threads, lock, db_data, ttl_data, transactions, stacks>>

\* tokenize: one pass through the body of "while i < len(code)"
TokenizeStep ==
    /\ ParseOnly
    /\ pc = "tokenize"
    /\ parser.i < Len(mutated)
    /\ LET after == tokenize_step(mutated, parser.i, parser.tokens, heap[coverage_map])
       IN  /\ parser' = [parser EXCEPT !.i = after.i, !.tokens = after.tokens]
           /\ heap' = [heap EXCEPT ![coverage_map] = after.branches]
           /\ raised' = after.raised
           /\ pc' = IF after.raised THEN "parse_and_run_raised" ELSE "tokenize"

\* tokenize: the loop condition fails, the tokens are returned and
\* parse_program starts
TokenizeReturn ==
    /\ ParseOnly
    /\ pc = "tokenize"
    /\ ~(parser.i < Len(mutated))
    /\ heap' = [heap EXCEPT ![coverage_map] = @ \cup {"lexer_end", "parse_program_start"}]
    /\ pc' = "parse_program"
    /\ UNCHANGED <<parser, raised>>

\* parse_program: one pass through the body of its while loop
ParseStatement ==
    /\ ParseOnly
    /\ pc = "parse_program"
    /\ current_token(parser.tokens, parser.pos).ttype # "EOF"
    /\ LET stmt == parse_statement(parser.tokens,
                       [pos |-> parser.pos, branches |-> heap[coverage_map],
                        raised |-> FALSE])
       IN  /\ heap' = [heap EXCEPT ![coverage_map] = stmt.ps.branches]
           /\ raised' = stmt.ps.raised
           /\ IF stmt.ps.raised
              THEN /\ parser' = [parser EXCEPT !.pos = stmt.ps.pos]
                   /\ pc' = "parse_and_run_raised"
              ELSE /\ parser' = [parser EXCEPT !.pos = stmt.ps.pos,
                                               !.statements = Append(@, stmt.node)]
                   /\ pc' = "parse_program"

\* parse_program: the current token is EOF, the program is returned
ParseReturn ==
    /\ ParseOnly
    /\ pc = "parse_program"
    /\ current_token(parser.tokens, parser.pos).ttype = "EOF"
    /\ heap' = [heap EXCEPT ![coverage_map] = @ \cup {"parse_program_end"}]
    /\ pc' = "eval_program"
    /\ UNCHANGED <<parser, raised>>

\* Interpreter().eval_program(program_ast)
Interpret ==
    /\ ParseOnly
    /\ pc = "eval_program"
    /\ LET ran == eval_program(parser.statements,
                      [variables |-> <<>>, branches |-> {}, raised |-> FALSE])
       IN  /\ heap' = [heap EXCEPT ![coverage_map] = @ \cup ran.branches]
           /\ raised' = ran.raised
           /\ pc' = IF ran.raised THEN "parse_and_run_raised" ELSE "parse_and_run_returned"
    /\ UNCHANGED parser

ParseNext ==
    \/ TokenizeStep
    \/ TokenizeReturn
    \/ ParseStatement
    \/ ParseReturn
    \/ Interpret

\* the call runs on its thread until it returns or raises
ParseSpec == ParseInit /\ [][ParseNext]_vars /\ WF_vars(ParseNext)

----------------------------------------------------------------------------
(* Properties of the campaigns *)

\* the campaign's own map: the dict the global is bound to outside the
\* try/except of a guided iteration, kept in saved_map during it
Persistent == "campaign_dict"

Running == {"loop", "exec", "update", "record"}

IsPrefix(s, t) == Len(s) <= Len(t) /\ SubSeq(t, 1, Len(s)) = s

\* C1: in every campaign, of either policy, coverage_history never decreases
\* from one entry to the next.
C1_Monotonic ==
    \A i \in 1..(Len(coverage_history) - 1) :
        coverage_history[i] <= coverage_history[i + 1]

\* a finished campaign whose history has a strict increase and a repeat
C1_Witness ==
    /\ pc = "done"
    /\ Len(coverage_history) >= 2
    /\ coverage_history[1] < coverage_history[2]

\* C2: once the campaign has begun, a branch in its persistent coverage map
\* stays there: no step, of an iteration that finds something new or not,
\* removes an entry.
C2_NeverRemoved ==
    [][pc # "idle" => heap[Persistent] \subseteq heap'[Persistent]]_vars

\* after two iterations the second of which added nothing to a non-empty map
C2_Witness ==
    /\ pc = "loop"
    /\ it = 2
    /\ heap[Persistent] # {}
    /\ coverage_history[2] = coverage_history[1]

\* C3: under the guided policy the corpus only grows at its end: the corpus
\* before a step is a prefix of the corpus after it, and it always begins with
\* the seed corpus of the campaign.
C3_AppendOnly ==
    /\ [][IsPrefix(seeds, seeds')]_vars
    /\ [](policy = "CoverageGuided" =>
            \E sl \in SeedLists(driver) : IsPrefix(sl, seeds))

\* a finished guided campaign whose corpus has two entries more than its seeds
C3_Witness ==
    /\ pc = "done"
    /\ policy = "CoverageGuided"
    /\ \E sl \in SeedLists(driver) : IsPrefix(sl, seeds) /\ Len(seeds) = Len(sl) + 2

C5_MergeAlways ==
    [][pc = "update" =>
         /\ coverage_map' = Persistent
         /\ heap'[Persistent] = heap[Persistent] \cup heap[temp_map]]_vars

\* two guided iterations are over, the second found nothing new, and the
\* global is bound to the persistent map, which holds all that was recorded
C5_Witness ==
    /\ pc = "loop"
    /\ policy = "CoverageGuided"
    /\ it = 2
    /\ coverage_map = Persistent
    /\ coverage_history[2] = coverage_history[1]
    /\ heap[Persistent] = total_coverage
    /\ heap[Persistent] # {}

\* C6: the history has one entry per finished iteration, so a campaign of
\* n >= 0 iterations returns n entries; each entry is the size of the
\* persistent map right after its iteration, and entries are never changed.
C6_OneEntryPerIteration ==
    /\ [](pc = "loop" => Len(coverage_history) = it)
    /\ [](pc = "done" /\ iterations >= 0 => Len(coverage_history) = iterations)
    /\ [][IsPrefix(coverage_history, coverage_history')]_vars
    /\ [][(pc = "update" \/ pc = "record") =>
            (/\ coverage_map' = Persistent
             /\ coverage_history' =
                  Append(coverage_history, Cardinality(heap'[Persistent])))]_vars

\* a campaign of two iterations has returned two entries, the last one the
\* size of the final map
C6_Witness ==
    /\ pc = "done"
    /\ iterations = 2
    /\ Len(coverage_history) = 2
    /\ coverage_history[2] = Cardinality(heap[Persistent])
    /\ coverage_history[2] > 0

\* C7: when the SUT raises, the campaign goes on inside the same iteration
\* with the sentinel recorded; the iteration then ends with the sentinel in the
\* persistent map and its history entry appended, and a further iteration, if
\* one is due, can start.
C7_RaiseIsCaught ==
    /\ [][pc = "exec" /\ raised' =>
            (/\ pc' \in {"update", "record"}
             /\ Sentinel(driver) \in heap'[coverage_map'])]_vars
    /\ [][(pc = "update" \/ pc = "record") /\ raised =>
            (/\ pc' = "loop"
             /\ Sentinel(driver) \in heap'[Persistent]
             /\ Len(coverage_history') = Len(coverage_history) + 1)]_vars
    /\ [](pc = "loop" /\ it < iterations => ENABLED (Generate \/ Select))

\* the iteration after one in which the SUT raised is running its SUT
C7_Witness ==
    /\ pc = "exec"
    /\ it >= 1
    /\ Sentinel(driver) \in heap[Persistent]
    /\ Len(coverage_history) = it

\* C8 as stated: when every execution of a campaign of n >= 1 iterations has
\* raised, the returned coverage holds the sentinel and nothing else, and every
\* history entry is 1.
C8_OnlySentinel ==
    (pc = "done" /\ iterations >= 1 /\ always_raised) =>
        /\ heap[Persistent] = {Sentinel(driver)}
        /\ \A i \in 1..Len(coverage_history) : coverage_history[i] = 1

\* C8: a campaign completes all its iterations also when every execution
\* raises; its coverage then holds the sentinel together with the branches the
\* SUT recorded on its way to the raise, so every history entry is at least 2.
C8_SentinelAndErrorBranches ==
    /\ (pc = "done" /\ iterations >= 0) =>
          (it = iterations /\ Len(coverage_history) = iterations)
    /\ (always_raised /\ it >= 1 /\ (pc = "loop" \/ pc = "done")) =>
          /\ Sentinel(driver) \in heap[Persistent]
          /\ heap[Persistent] # {Sentinel(driver)}
          /\ \A i \in 1..Len(coverage_history) : coverage_history[i] >= 2

\* a campaign of two iterations has returned, both executions raised
C8_Witness ==
    /\ pc = "done"
    /\ always_raised
    /\ iterations = 2
    /\ it = 2
    /\ Sentinel(driver) \in heap[Persistent]
    /\ Cardinality(heap[Persistent]) >= 2

\* C9: a campaign started with iterations >= 0 (and, when guided, a corpus
\* that is not empty) eventually returns its result, whether its executions
\* complete or raise.
C9_Terminates ==
    (pc # "idle" /\ iterations >= 0 /\
        (policy = "CoverageGuided" => seeds # <<>>))
      ~> (pc = "done" /\ result # <<>>)

\* a guided campaign has returned after an execution that raised and one that
\* did not
C9_Witness ==
    /\ pc = "done"
    /\ policy = "CoverageGuided"
    /\ result # <<>>
    /\ it = iterations
    /\ iterations >= 2
    /\ ~always_raised
    /\ Sentinel(driver) \in heap[Persistent]

\* C10: a campaign is idle, running or done; it leaves idle only to run and
\* running only to be done, and it never leaves done; only a loop body that
\* appends its history entry counts an iteration, the map, the corpus and the
\* history change only in the call and while running, and the campaign is done
\* with iterations >= 0 only after exactly that many bodies and entries.
C10_StateMachine ==
    /\ [](pc = "idle" \/ pc \in Running \/ pc = "done")
    /\ [][(pc = "idle" => pc' \in {"loop"})
          /\ (pc \in Running => pc' \in Running \cup {"done"})
          /\ (pc = "done" => UNCHANGED vars)]_vars
    /\ [][(pc \in Running /\ it' # it) =>
            (/\ pc = "update" \/ pc = "record"
             /\ it' = it + 1
             /\ Len(coverage_history') = it')]_vars
    /\ [][(pc \in Running /\ pc' = "done") =>
            (/\ pc = "loop"
             /\ it >= iterations
             /\ UNCHANGED <<it, heap, seeds, coverage_history>>)]_vars
    /\ []((pc = "done" /\ iterations >= 0) =>
            (it = iterations /\ Len(coverage_history) = iterations))

\* a guided campaign of two iterations is done: two bodies, two entries
C10_Witness ==
    /\ pc = "done"
    /\ policy = "CoverageGuided"
    /\ iterations = 2
    /\ it = 2
    /\ Len(coverage_history) = 2
    /\ result # <<>>

\* C11: a text mutator called on the empty seed has a candidate to return for
\* every choice of its random source, and it returns: no call raises.
C11_EmptySeedNeverRaises ==
    /\ (pc = "mutator_call" /\ driver \in Drivers /\ seed = <<>>) =>
          (/\ mutate_outcomes(driver, seed) # {}
           /\ \A o \in mutate_outcomes(driver, seed) : ~o.raised)
    /\ (pc = "mutator_return" /\ driver \in Drivers /\ seed = <<>>) => ~raised

\* mutate_string has returned a candidate for the empty seed
C11_Witness ==
    /\ pc = "mutator_return"
    /\ driver = "toy_lang"
    /\ seed = <<>>
    /\ ~raised
    /\ Len(mutated) >= 2

\* C12 as stated: the candidate a text mutator returns for the empty seed has
\* at least one character.
C12_EmptySeedGivesNonEmpty ==
    (pc = "mutator_return" /\ driver \in Drivers /\ seed = <<>>) =>
        (~raised /\ Len(mutated) >= 1)

\* C13: the candidate a text mutator returns for a non-empty seed is the seed
\* with one edit at one position pos of it: a character inserted before pos,
\* the character at pos deleted, or the character at pos replaced; the
\* characters before pos and after the edit are those of the seed, in order.
C13_OneLocalEdit ==
    (pc = "mutator_return" /\ driver \in Drivers /\ seed # <<>>) =>
        /\ ~raised
        /\ \E pos \in 0..(Len(seed) - 1) :
             /\ \A k \in 1..pos : mutated[k] = seed[k]
             /\ \/ /\ Len(mutated) = Len(seed) + 1
                   /\ \A k \in (pos + 1)..Len(seed) : mutated[k + 1] = seed[k]
                \/ /\ Len(mutated) = Len(seed) - 1
                   /\ \A k \in (pos + 2)..Len(seed) : mutated[k - 1] = seed[k]
                \/ /\ Len(mutated) = Len(seed)
                   /\ \A k \in (pos + 2)..Len(seed) : mutated[k] = seed[k]

\* mutate_string has replaced the second character of "0;" by "0"
C13_Witness ==
    /\ pc = "mutator_return"
    /\ driver = "toy_lang"
    /\ seed = <<"0", ";">>
    /\ mutated = <<"0", "0">>

\* C14: the step of a guided iteration that picks a seed and mutates it leaves
\* the corpus, every coverage dict (the persistent map and the iteration's
\* scope, which is empty), the accumulated branch set and the history as they
\* were; the seed it read is still in the corpus and the candidate is one the
\* mutator returns for that seed.
C14_MutateHasNoSideEffects ==
    [][(policy = "CoverageGuided" /\ pc = "loop" /\ pc' = "exec") =>
         (/\ seeds' = seeds
          /\ \E i \in 1..Len(seeds') : seeds'[i] = seed'
          /\ mutated' \in Mutations(driver, seed')
          /\ heap' = heap
          /\ heap'[temp_map'] = {}
          /\ total_coverage' = total_coverage
          /\ coverage_history' = coverage_history)]_vars

\* the second iteration of a guided campaign has its candidate, which differs
\* from its seed, and nothing is recorded in its scope yet
C14_Witness ==
    /\ pc = "exec"
    /\ policy = "CoverageGuided"
    /\ it = 1
    /\ mutated # seed
    /\ heap[Persistent] # {}
    /\ heap[temp_map] = {}
    /\ Len(coverage_history) = 1

\* C15 as stated: the candidate mutate_expression returns is a function of the
\* function list called on the seed or on a part of it, or the seed spliced
\* with an operator of the operator list and a numeric literal.
C15_BuiltFromSeed ==
    (pc = "mutator_return" /\ driver = "cgf_cal") =>
        \/ \E func \in FUNCTIONS, a \in 0..(Len(seed) - 1) :
             \E b \in (a + 1)..Len(seed) :
                mutated = func \o <<"(">> \o Slice(seed, a, b) \o <<")">>
        \/ \E op \in OPERATORS, n \in RandomNumbers :
             mutated = <<"(">> \o seed \o <<" ">> \o op \o <<" ">> \o n \o <<")">>

\* C16: a PureRandom campaign has no corpus and no step of it makes one; at the
\* top of every iteration each input of the generator can be drawn, whatever
\* the coverage map holds and whatever was executed before, and the input
\* executed is one of them.
C16_PureRandomIndependent ==
    /\ [](policy = "PureRandom" => seeds = <<>>)
    /\ [][(policy = "PureRandom" /\ pc = "loop" /\ pc' = "exec") =>
            mutated' \in RandomInputs(driver)]_vars
    /\ []((policy = "PureRandom" /\ pc = "loop" /\ it < iterations) =>
            \A r \in RandomInputs(driver) : ENABLED (Generate /\ mutated' = r))

\* the second iteration of a PureRandom campaign runs on an input while the
\* map holds what the first recorded
C16_Witness ==
    /\ pc = "exec"
    /\ policy = "PureRandom"
    /\ it = 1
    /\ seeds = <<>>
    /\ heap[Persistent] # {}
    /\ mutated \in RandomInputs(driver)

\* the last entry of a history
Last(h) == h[Len(h)]

\* main has both campaigns' histories
BothReturned ==
    /\ pc = "done"
    /\ policy = "CoverageGuided"
    /\ coverage_history_random # <<>>
    /\ coverage_history # <<>>

C21_StartsEmpty ==
    /\ []((pc = "loop" /\ it = 0) =>
            (/\ heap[coverage_map] = {}
             /\ total_coverage = {}
             /\ coverage_history = <<>>))
    /\ [][(pc = "exec" /\ it = 0 /\ policy = "PureRandom") =>
            heap'[coverage_map'] =
                LET run == sut_run(driver, mutated)
                IN  run.branches \cup except_branches(driver, run.raised)]_vars
    /\ [][(pc = "update" /\ it = 0) => heap'[coverage_map'] = heap[temp_map]]_vars

\* the guided campaign of main is about to run its first iteration, after a
\* random campaign on the same SUT that covered something
C21_Witness ==
    /\ pc = "exec"
    /\ policy = "CoverageGuided"
    /\ it = 0
    /\ cov_random # {}
    /\ heap[Persistent] = {}
    /\ coverage_history = <<>>

\* C22 as stated: campaigns on two threads do not touch each other's dicts:
\* a campaign that runs the SUT records into its own temporary dict, and a
\* campaign that has returned has the history and the coverage set it has
\* when it runs alone.
C22_CampaignsIsolated ==
    \A t \in Threads :
        /\ threads[t].pc = "exec" => coverage_map = threads[t].temp_map
        /\ threads[t].pc = "done" =>
              /\ threads[t].coverage_history = threads[t].alone_history
              /\ threads[t].result = threads[t].fired

\* the branches the program x=1;print(x); fires on its way through the
\* lexer, the parser and the interpreter
ToyMinimum ==
    {"lexer_start", "lexer_ident", "lexer_equals", "lexer_number", "lexer_semi",
     "parse_program_start", "parse_stmt_assign", "interp_assign"}

\* a guided campaign of toy_lang.py has returned after at least one iteration
ToyGuidedDone ==
    /\ pc = "done"
    /\ driver = "toy_lang"
    /\ policy = "CoverageGuided"
    /\ iterations >= 1

C24_SampleMazeSolved ==
    mutated = sample_maze =>
        /\ pc # "demo_error"
        /\ ~raised
        /\ (pc = "demo_parsed" \/ pc = "demo_solved") =>
              "maze_parsed" \in heap[coverage_map]
        /\ pc = "demo_solved" =>
              /\ "path_found" \in heap[coverage_map]
              /\ "no_path" \notin heap[coverage_map]
              /\ result # NoPath
              /\ Len(result) = 6
              /\ result[1] = <<0, 0>>
              /\ result[Len(result)] = <<1, 2>>

\* the demonstration has parsed and solved sample_maze
C24_Witness ==
    /\ pc = "demo_solved"
    /\ mutated = sample_maze
    /\ {"maze_parsed", "path_found"} \subseteq heap[coverage_map]

\* C25 as stated, in the form a finite run refutes: no thread waits for the
\* database lock while it holds that lock itself (such a wait never ends, so
\* the call never returns and the lock is never released).
C25_NoThreadWaitsOnItsOwnLock ==
    \A t \in DOMAIN stacks :
        ~(/\ stacks[t] # <<>>
          /\ Top(stacks[t]).pc = "acquire"
          /\ lock = t)

\* C26: at every iteration boundary of a guided campaign the set the novelty
\* test uses is the key set of the persistent map; an iteration changes it to
\* what the incremental update gives, which is the key set of the merged map,
\* whichever of the two ways the module computes it, and the history entry is
\* its size.
C26_NoveltySetIsPersistentMap ==
    /\ []((policy = "CoverageGuided" /\ pc = "loop") =>
            total_coverage = heap[Persistent])
    /\ [][pc = "update" =>
            /\ total_coverage' = total_coverage \cup (heap[temp_map] \ total_coverage)
            /\ total_coverage' = heap'[Persistent]
            /\ coverage_history' =
                  Append(coverage_history, Cardinality(total_coverage'))]_vars

\* a guided maze campaign after two iterations, the second of which fired
\* nothing new
C26_Witness ==
    /\ policy = "CoverageGuided"
    /\ driver = "maze"
    /\ pc = "loop"
    /\ it = 2
    /\ total_coverage # {}
    /\ total_coverage = heap[Persistent]
    /\ Len(seeds) = 6

\* C27: while a guided iteration runs the SUT the global is bound to the
\* iteration's temporary dict, which is not the persistent map and is empty
\* when the execution starts; the execution does not change the persistent
\* map; at every iteration boundary and at the return, also after an
\* execution that raised, the global is bound to the persistent map.
C27_ScopePerIteration ==
    /\ []((policy = "CoverageGuided" /\ pc = "exec") =>
            (/\ coverage_map = temp_map
             /\ temp_map # Persistent
             /\ saved_map = Persistent
             /\ heap[temp_map] = {}))
    /\ [][(policy = "CoverageGuided" /\ pc = "exec") =>
            (/\ heap'[Persistent] = heap[Persistent]
             /\ coverage_map' = temp_map)]_vars
    /\ []((policy = "CoverageGuided" /\ (pc = "loop" \/ pc = "done")) =>
            coverage_map = Persistent)

\* the boundary after a guided iteration whose execution raised: the sentinel
\* is in the persistent map and the global is bound to that map
C27_Witness ==
    /\ policy = "CoverageGuided"
    /\ pc = "loop"
    /\ it = 1
    /\ always_raised
    /\ coverage_map = Persistent
    /\ Sentinel(driver) \in heap[Persistent]

\* C28: a campaign of n >= 1 iterations returns with n history entries and a
\* coverage set of exactly as many branches as the last entry says (maze.py
\* returns that set, as a copy); the set main got from the random campaign
\* still has that size, and does not change, while the guided campaign runs.
C28_ReturnedSetIsSnapshot ==
    /\ []((pc = "done" /\ iterations >= 1) =>
            (/\ Len(coverage_history) = iterations
             /\ Cardinality(heap[coverage_map]) = coverage_history[iterations]
             /\ driver = "maze" =>
                   (/\ result[1] = heap[coverage_map]
                    /\ result[2] = coverage_history
                    /\ Cardinality(result[1]) = result[2][iterations])))
    /\ []((policy = "CoverageGuided" /\ coverage_history_random # <<>>) =>
            Cardinality(cov_random) = Last(coverage_history_random))
    /\ [][policy = "CoverageGuided" => cov_random' = cov_random]_vars

\* main's guided maze campaign has returned a set that differs from the one
\* the random campaign returned before it
C28_Witness ==
    /\ pc = "done"
    /\ policy = "CoverageGuided"
    /\ driver = "maze"
    /\ iterations = MaxIter
    /\ cov_random # {}
    /\ result[1] # cov_random
    /\ Cardinality(cov_random) = Last(coverage_history_random)

\* the history value before the first iteration is taken as 0
LastOrZero(h) == IF h = <<>> THEN 0 ELSE h[Len(h)]

\* the number of inputs a guided campaign has appended to its seeds
Appended == Len(seeds) - Len(CHOOSE sl \in SeedLists(driver) : TRUE)

\* C29: a guided iteration appends to the corpus exactly when its history
\* entry is larger than the one before it, and the number of inputs appended
\* so far is never more than the size of the coverage set.
C29_GrowsIffHistoryGrows ==
    /\ [][pc = "update" =>
            ((seeds' = Append(seeds, mutated)) <=>
                 (LastOrZero(coverage_history') > LastOrZero(coverage_history)))
            /\ (seeds' # seeds => seeds' = Append(seeds, mutated))]_vars
    /\ []((policy = "CoverageGuided" /\ pc # "exec" /\ pc # "update") =>
            Appended <= Cardinality(heap[coverage_map]))

\* a guided campaign of two iterations has returned: the first appended its
\* input and raised the history value, the second did neither
C29_Witness ==
    /\ pc = "done"
    /\ policy = "CoverageGuided"
    /\ it = 2
    /\ Appended = 1
    /\ coverage_history[1] > 0
    /\ coverage_history[2] = coverage_history[1]

\* what the try/except of the loop body records for an input
Recorded(d, input) ==
    LET run == sut_run(d, input)
    IN  run.branches \cup except_branches(d, run.raised)

\* C30: a guided iteration runs the SUT once, on a candidate the mutator
\* returns for a seed of the corpus: the execution is followed by the update
\* and the update by the next iteration.  Every branch of the coverage set
\* was recorded by the execution of a candidate, which the corpus holds after
\* the initial seeds; what only an initial seed would fire is not in it.
C30_OnlyCandidatesExecuted ==
    /\ []((policy = "CoverageGuided" /\ pc = "exec") =>
            (/\ \E i \in 1..Len(seeds) : seeds[i] = seed
             /\ mutated \in Mutations(driver, seed)))
    /\ [][(policy = "CoverageGuided" /\ pc = "exec") =>
            (/\ pc' = "update"
             /\ heap'[coverage_map'] = Recorded(driver, mutated))]_vars
    /\ [][pc = "update" => (pc' = "loop" /\ it' = it + 1)]_vars
    /\ []((policy = "CoverageGuided" /\ (pc = "loop" \/ pc = "done")) =>
            \A b \in heap[coverage_map] :
                \E i \in (Len(seeds) - Appended + 1)..Len(seeds) :
                    b \in Recorded(driver, seeds[i]))

\* a guided toy-language campaign has returned without parse_stmt_assign,
\* which the unmodified seed x=1;print(x); fires
C30_Witness ==
    /\ pc = "done"
    /\ policy = "CoverageGuided"
    /\ driver = "toy_lang"
    /\ it = MaxIter
    /\ "parse_stmt_assign" \in Recorded(driver, seeds[1])
    /\ "parse_stmt_assign" \notin heap[coverage_map]
    /\ heap[coverage_map] # {}

\* C31: a candidate that is one unit longer than its non-empty seed, which is
\* what insert returns, ends with the last unit of the seed.
C31_InsertNeverAppends ==
    (/\ pc = "mutator_return"
     /\ driver \in Drivers
     /\ seed # <<>>
     /\ ~raised
     /\ Len(mutated) = Len(seed) + 1) =>
        mutated[Len(mutated)] = seed[Len(seed)]

\* insert has put a "0" before the last unit of the seed 0;
C31_Witness ==
    /\ pc = "mutator_return"
    /\ driver = "toy_lang"
    /\ seed = <<"0", ";">>
    /\ mutated = <<"0", "0", ";">>

\* the cells of a grid that are not walls
OpenCells(grid) ==
    {p \in (0..(Len(grid) - 1)) \X (0..(Len(grid[1]) - 1)) :
        grid[p[1] + 1][p[2] + 1] # "#"}

\* one step up, down, left or right
Adjacent(p, q) ==
    \/ (p[1] = q[1] /\ (p[2] = q[2] + 1 \/ q[2] = p[2] + 1))
    \/ (p[2] = q[2] /\ (p[1] = q[1] + 1 \/ q[1] = p[1] + 1))

\* the cells that can be reached from the cells of from in at most k steps
\* through cells that are not walls
RECURSIVE ReachWithin(_, _, _)
ReachWithin(grid, from, k) ==
    IF k = 0 THEN from
    ELSE LET further == from \cup {q \in OpenCells(grid) : \E p \in from : Adjacent(p, q)}
         IN  IF further = from THEN from ELSE ReachWithin(grid, further, k - 1)

\* C32: find_shortest_path returns on every parsed maze.  When the finish can
\* be reached from the start it returns a path from the start to the finish
\* whose steps are 4-neighbour steps between cells of the grid that are not
\* walls, and no path with fewer cells exists; otherwise it returns None.
C32_ShortestPath ==
    /\ pc = "demo_parsed" => ENABLED DemoSolve
    /\ pc = "demo_solved" =>
          Bind(from_string(mutated), LAMBDA m :
              IF m.finish \in ReachWithin(m.grid, {m.start}, Cardinality(OpenCells(m.grid)))
              THEN /\ result # NoPath
                   /\ result[1] = m.start
                   /\ result[Len(result)] = m.finish
                   /\ \A i \in 1..Len(result) : result[i] \in OpenCells(m.grid)
                   /\ \A i \in 1..(Len(result) - 1) : Adjacent(result[i], result[i + 1])
                   /\ m.finish \notin ReachWithin(m.grid, {m.start}, Len(result) - 2)
                   /\ "path_found" \in heap[coverage_map]
              ELSE /\ result = NoPath
                   /\ "no_path" \in heap[coverage_map])

\* a maze one edit away from sample_maze has been solved: its finish cannot
\* be reached
C32_Witness ==
    /\ pc = "demo_solved"
    /\ result = NoPath
    /\ "maze_parsed" \in heap[coverage_map]
    /\ "queue_append" \in heap[coverage_map]

\* the number of units of text that are ch
RECURSIVE CountOf(_, _)
CountOf(text, ch) ==
    IF text = <<>> THEN 0
    ELSE (IF Head(text) = ch THEN 1 ELSE 0) + CountOf(Tail(text), ch)

\* the lengths of the lines of text: the numbers of units between newlines
RECURSIVE LineLengths(_, _)
LineLengths(text, n) ==
    IF text = <<>> THEN {n}
    ELSE IF Head(text) = "\n" THEN {n} \cup LineLengths(Tail(text), 0)
    ELSE LineLengths(Tail(text), n + 1)

\* text without the whitespace at its ends
Trimmed(text) ==
    LET inner == {i \in 1..Len(text) : text[i] \notin Whitespace}
    IN  IF inner = {} THEN <<>>
        ELSE SubSeq(text, CHOOSE i \in inner : \A j \in inner : i <= j,
                          CHOOSE i \in inner : \A j \in inner : i >= j)

\* the error branches of Maze.from_string
ParseErrors ==
    {"empty_input", "non_rectangular", "multiple_start", "multiple_finish",
     "no_start", "no_finish"}

\* C33: from_string returns a Maze and records maze_parsed exactly when the
\* stripped text is not empty, its lines have one length, and it holds one
\* S and one F; otherwise it raises, with exactly one of its error branches
\* recorded and maze_parsed not recorded.
C33_ParsedIffWellFormed ==
    (pc = "demo_parsed" \/ pc = "demo_error") =>
        LET text == Trimmed(mutated)
            well_formed ==
                /\ text # <<>>
                /\ Cardinality(LineLengths(text, 0)) = 1
                /\ CountOf(text, "S") = 1
                /\ CountOf(text, "F") = 1
        IN  /\ (pc = "demo_parsed") <=> well_formed
            /\ pc = "demo_parsed" =>
                  (/\ ~raised
                   /\ "maze_parsed" \in heap[coverage_map]
                   /\ heap[coverage_map] \cap ParseErrors = {})
            /\ pc = "demo_error" =>
                  (/\ raised
                   /\ "maze_parsed" \notin heap[coverage_map]
                   /\ Cardinality(heap[coverage_map] \cap ParseErrors) = 1)

\* a maze with a start and no finish has been refused
C33_Witness ==
    /\ pc = "demo_error"
    /\ raised
    /\ CountOf(mutated, "S") = 1
    /\ heap[coverage_map] = {"found_start", "no_finish"}

\* C34: parse_and_run ends on every input: each pass through tokenize's loop
\* moves the index forward or raises, each parse_statement of parse_program's
\* loop moves the parser's position forward or raises, and the call
\* eventually returns or raises.
C34_Terminates ==
    /\ [][/\ (pc = "tokenize" /\ pc' # "parse_program") =>
                 (parser'.i > parser.i \/ pc' = "parse_and_run_raised")
          /\ (pc = "parse_program" /\ pc' # "eval_program") =>
                 (parser'.pos > parser.pos \/ pc' = "parse_and_run_raised")]_vars
    /\ <>(pc \in {"parse_and_run_returned", "parse_and_run_raised"})

C34_Witness ==
    /\ pc = "parse_and_run_returned"
    /\ Len(parser.statements) = 3
    /\ parser.i = Len(mutated)
    /\ parser.pos = Len(parser.tokens)

\* thread t waits for the lock while it holds the lock itself: its call in
\* progress never goes on and the lock is never released
Stuck(t) ==
    /\ stacks[t] # <<>>
    /\ Top(stacks[t]).pc = "acquire"
    /\ lock = t

\* thread t waits for the lock and the thread that holds it is stuck
WaitsForever(t) ==
    /\ stacks[t] # <<>>
    /\ Top(stacks[t]).pc = "acquire"
    /\ lock \in DbThreads
    /\ Stuck(lock)

\* the outermost call in progress of a worker
Called(t, m) == stacks[t] # <<>> /\ stacks[t][1].method = m

\* C35 as stated, in the form a finite run refutes: a set call that has
\* stored its pair goes on to return its "Set: ..." string; it is never left
\* waiting for a lock that will not be released.
C35_SetReturns ==
    \A t \in Workers :
        (Called(t, "set") /\ stacks[t][1].key \in db_data) => ~WaitsForever(t)

\* C36 as stated, in the form a finite run refutes: a commit_transaction of
\* a transaction that is open goes on to return with the transaction removed
\* and the keys written since begin_transaction kept; it is never left
\* waiting for a lock that will not be released.
C36_CommitCompletes ==
    \A t \in Workers :
        (/\ Called(t, "commit_transaction")
         /\ \E x \in transactions : x.id = stacks[t][1].key)
        => ~WaitsForever(t)

\* C37 as stated, in the form a finite run refutes: a rollback_transaction
\* of an open transaction, called when data differs from what it was at
\* begin_transaction, goes on to return with data put back; it is never left
\* waiting for a lock that will not be released.
C37_RollbackCompletes ==
    \A t \in Workers :
        (/\ Called(t, "rollback_transaction")
         /\ \E x \in transactions : x.id = stacks[t][1].key /\ x.snapshot # db_data)
        => ~WaitsForever(t)

C19_NegativeAborts == iterations < 0 => pc # "done"

====
